---- MODULE Spec2Model ----
(***************************************************************************)
(* Model of the aggregation pipeline of rto-dashboard-secure               *)
(* (src/process_raw_data.py, class RawDataProcessor): the facility-name    *)
(* normalizer clean_phc_name, the per-facility unique counting of          *)
(* process_sector_data, the overview rollup of calculate_overview_metrics  *)
(* and the run process_raw_data that ties them together.                   *)
(*                                                                         *)
(* A Python str is a sequence of characters; a character is a one-letter   *)
(* TLA+ string, or "uXXXX" for a code point outside printable ASCII.  The  *)
(* other cells of a sheet (National ID, Response, ...) are only compared   *)
(* for equality by the code and are atomic strings.                        *)
(***************************************************************************)
EXTENDS Integers, Sequences, FiniteSets, TLC

VARIABLES
    (* ---- the normalizer applied to one cell -------------------------- *)
    source_name,     \* the 'Source.Name' cell handed to clean_phc_name
    npc,             \* "raw" | "cleaned" | "recleaned"
    cleaned,         \* clean_phc_name(source_name)
    recleaned,       \* clean_phc_name(cleaned)
    (* ---- one run of process_raw_data --------------------------------- *)
    sheets,          \* raw_query_data.xlsx: sheet name -> sequence of rows
    pc,              \* position of the run
    sector_idx,      \* index of the for-loop over self.sectors
    clock,           \* datetime.now(), counted in runs
    dashboard_data,  \* the dict built by the run
    dashboard_file,  \* dashboard_data.json
    summary_file,    \* summary_report.txt
    stdout,          \* what the run has printed
    (* ---- the server process (src/server.py) -------------------------- *)
    files,             \* working directory: file name -> content
    threads,           \* thread id -> what the thread is doing (0: HTTP thread)
    stop_event,        \* auto_refresh_settings["stop_event"]: id of its thread, 0 for None
    last_refresh_time, \* the global last_refresh_time
    now,               \* time.time(), in seconds
    runs_started,      \* calls of process_raw_data so far (their timestamps)
    response,          \* the last HTTP response sent
    config,            \* config.json as load_config() returns it
    (* ---- the admin sessions (src/server.py) -------------------------- *)
    admin_sessions,    \* the global admin_sessions: token -> session
    uuids,             \* calls of uuid.uuid4() so far
    auth,              \* the last call of is_admin_authenticated and its result
    expired_seen,      \* history: the tokens that were rejected as expired
    (* ---- the refresh interval (src/server.py) ------------------------ *)
    settings,          \* auto_refresh_settings and the clocks datetime.now reads
    interval           \* what get_next_refresh_interval() returned

vars == <<source_name, npc, cleaned, recleaned,
          sheets, pc, sector_idx, clock, dashboard_data, dashboard_file, summary_file,
          stdout,
          files, threads, stop_event, last_refresh_time, now, runs_started, response,
          config, admin_sessions, uuids, auth, expired_seen, settings, interval>>

serverVars == <<files, threads, stop_event, last_refresh_time, now, runs_started, response>>

\* What the handlers and the runs read but never write.
authVars == <<admin_sessions, uuids, auth, expired_seen>>

intervalVars == <<settings, interval>>

restVars == <<config, admin_sessions, uuids, auth, expired_seen, settings, interval>>

normVars == <<source_name, npc, cleaned, recleaned>>
runVars  == <<sheets, pc, sector_idx, clock, dashboard_data, dashboard_file, summary_file,
             stdout>>

-----------------------------------------------------------------------------
(* Python str primitives                                                   *)

\* pandas' missing value in a 'Source.Name' cell: not a str.
NaNName == <<"<NaN>">>

\* str.isspace() of the characters that occur in the model.
Whitespace == {" ", "\t"}

\* Code points, for the ordering of str (groupby sorts its keys).
CodePoint ==
    ("\t" :> 9) @@ (" " :> 32) @@ ("-" :> 45) @@ ("." :> 46) @@ ("A" :> 65) @@
    ("B" :> 66) @@ ("C" :> 67) @@ ("H" :> 72) @@ ("N" :> 78) @@ ("P" :> 80) @@
    ("a" :> 97) @@ ("e" :> 101) @@ ("h" :> 104) @@ ("i" :> 105) @@
    ("l" :> 108) @@ ("m" :> 109) @@ ("n" :> 110) @@ ("o" :> 111) @@
    ("r" :> 114) @@ ("s" :> 115) @@ ("t" :> 116) @@ ("x" :> 120) @@
    ("y" :> 121) @@ ("u00A3" :> 163) @@ ("u00A7" :> 167) @@ ("u00A8" :> 168) @@
    ("u00A9" :> 169) @@ ("u00AD" :> 173) @@ ("u00B1" :> 177) @@
    ("u00B2" :> 178) @@ ("u00B5" :> 181) @@ ("u00B9" :> 185) @@
    ("u00D8" :> 216) @@ ("u00D9" :> 217) @@ ("u0160" :> 352) @@
    ("u0192" :> 402) @@ ("u02C6" :> 710) @@ ("u201E" :> 8222) @@
    ("u2026" :> 8230)

Chars == DOMAIN CodePoint

\* s.startswith(p)
StartsWith(s, p) == Len(p) <= Len(s) /\ SubSeq(s, 1, Len(p)) = p

\* old occurs in s at index i
OccursAt(s, old, i) ==
    i + Len(old) - 1 <= Len(s) /\ SubSeq(s, i, i + Len(old) - 1) = old

\* The smallest and the largest member of a non-empty set of integers.
MinOf(S) == CHOOSE m \in S : \A o \in S : m <= o
MaxOf(S) == CHOOSE m \in S : \A o \in S : m >= o

\* s.replace(old, ''): from position i, the text up to the next occurrence of
\* old is kept, the occurrence is dropped, and the scan goes on behind it.
RECURSIVE PyReplaceFrom(_, _, _)
PyReplaceFrom(s, old, i) ==
    LET found == { j \in i..Len(s) : OccursAt(s, old, j) }
    IN  IF found = {} THEN SubSeq(s, i, Len(s))
        ELSE SubSeq(s, i, MinOf(found) - 1)
             \o PyReplaceFrom(s, old, MinOf(found) + Len(old))

PyReplace(s, old) == PyReplaceFrom(s, old, 1)

\* s.strip(): from the first to the last character that is not whitespace
PyStrip(s) ==
    LET kept == { i \in 1..Len(s) : s[i] \notin Whitespace }
    IN  IF kept = {} THEN <<>> ELSE SubSeq(s, MinOf(kept), MaxOf(kept))

\* str(source_name): a str is itself, the missing value prints as 'nan'
PyStr(v) == IF v = NaNName THEN <<"n", "a", "n">> ELSE v

-----------------------------------------------------------------------------
(* clean_phc_name                                                          *)

Extension == <<".", "x", "l", "s", "x">>

\* The words of the first three prefixes, as the source file spells them.
WordMarkaz ==
    <<"u00D9", "u2026", "u00D8", "u00B1", "u00D9", "u0192", "u00D8", "u00B2">>
WordAlRiaya ==
    <<"u00D8", "u00A7", "u00D9", "u201E", "u00D8", "u00B1", "u00D8", "u00B9",
      "u00D8", "u00A7", "u00D9", "u0160", "u00D8", "u00A9">>
WordAlSihhiya ==
    <<"u00D8", "u00A7", "u00D9", "u201E", "u00D8", "u00B5", "u00D8", "u00AD",
      "u00D9", "u0160", "u00D8", "u00A9">>
WordAlAwwaliya ==
    <<"u00D8", "u00A7", "u00D9", "u201E", "u00D8", "u00A3", "u00D9", "u02C6",
      "u00D9", "u201E", "u00D9", "u0160", "u00D8", "u00A9">>
WordBi == <<"u00D8", "u00A8">>
WordSihhi == <<"u00D8", "u00B5", "u00D8", "u00AD", "u00D9", "u0160">>

PrefixCenterPrimaryCare ==
    WordMarkaz \o <<" ">> \o WordAlRiaya \o <<" ">> \o WordAlSihhiya
               \o <<" ">> \o WordAlAwwaliya
PrefixCenterPrimaryCareIn == PrefixCenterPrimaryCare \o <<" ">> \o WordBi
PrefixHealthCenter == WordMarkaz \o <<" ">> \o WordSihhi \o <<" ">>
PrefixPrimaryHealthCareCenter ==
    <<"P", "r", "i", "m", "a", "r", "y", " ", "H", "e", "a", "l", "t", "h",
      " ", "C", "a", "r", "e", " ", "C", "e", "n", "t", "e", "r">>
PrefixPHC == <<"P", "H", "C", " ">>

prefixes_to_remove ==
    << PrefixCenterPrimaryCareIn,
       PrefixCenterPrimaryCare,
       PrefixHealthCenter,
       PrefixPrimaryHealthCareCenter,
       PrefixPHC >>

\* A loop that goes on after a match (no break): C9's mutant.
RECURSIVE RemovePrefixNoBreak(_, _)
RemovePrefixNoBreak(name, k) ==
    IF k > Len(prefixes_to_remove) THEN name
    ELSE IF StartsWith(name, prefixes_to_remove[k])
         THEN RemovePrefixNoBreak(
                  SubSeq(name, Len(prefixes_to_remove[k]) + 1, Len(name)), k + 1)
         ELSE RemovePrefixNoBreak(name, k + 1)

\* for prefix in prefixes_to_remove: if name.startswith(prefix): cut; break
RECURSIVE RemovePrefixFrom(_, _)
RemovePrefixFrom(name, k) ==
    IF k > Len(prefixes_to_remove) THEN name
    ELSE IF StartsWith(name, prefixes_to_remove[k])
         THEN SubSeq(name, Len(prefixes_to_remove[k]) + 1, Len(name))
         ELSE RemovePrefixFrom(name, k + 1)

RemovePrefixBreakless(name) == RemovePrefixNoBreak(name, 1)

RemovePrefix(name) == RemovePrefixFrom(name, 1)

\* str.rstrip('.xlsx') in place of replace: strips a set of characters (C10's mutant).
RECURSIVE RStripChars(_, _)
RStripChars(s, cs) ==
    IF s # <<>> /\ s[Len(s)] \in cs THEN RStripChars(SubSeq(s, 1, Len(s) - 1), cs)
    ELSE s

RemoveExtensionRStrip(source_name_) ==
    RStripChars(PyStr(source_name_), {".", "x", "l", "s"})

\* name = str(source_name).replace('.xlsx', '')
RemoveExtension(source_name_) == PyReplace(PyStr(source_name_), Extension)

\* Without the pd.isna guard (C8's mutant).
clean_phc_name_unguarded(source_name_) ==
    PyStrip(RemovePrefix(RemoveExtension(source_name_)))

clean_phc_name(source_name_) ==
    IF source_name_ = NaNName THEN <<>>
    ELSE PyStrip(RemovePrefix(RemoveExtension(source_name_)))

-----------------------------------------------------------------------------
(* The normalizer on bounded inputs                                        *)

\* A name is the concatenation of at most MaxPieces pieces.
MaxPieces == 3

Pieces ==
    { <<" ">>, <<" ", " ">>, PrefixPHC, Extension, <<".", "x", "l">>, <<"s", "x">>, <<"A">>,
      <<"A", "l", "-", "N", "o", "o", "r">>,
      PrefixPrimaryHealthCareCenter, PrefixCenterPrimaryCareIn,
      PrefixCenterPrimaryCare, PrefixHealthCenter }

RECURSIVE Concats(_)
Concats(n) ==
    IF n = 0 THEN { <<>> }
    ELSE Concats(n - 1) \cup { s \o p : s \in Concats(n - 1), p \in Pieces }

NameInputs == Concats(MaxPieces) \cup { NaNName }

\* The server is not part of the run of the pipeline alone.
\* No session, no token made, no token checked.
NoAuth == [token |-> 0, result |-> FALSE]

\* get_next_refresh_interval is not called.
IntervalIdle ==
    /\ settings = <<>>
    /\ interval = 0

AuthIdle ==
    /\ admin_sessions = <<>>
    /\ uuids = 0
    /\ auth = NoAuth
    /\ expired_seen = {}

ServerIdle ==
    /\ AuthIdle
    /\ IntervalIdle
    /\ files = <<>>
    /\ threads = <<>>
    /\ stop_event = 0
    /\ last_refresh_time = 0
    /\ now = 0
    /\ runs_started = 0
    /\ response = <<>>
    /\ config = <<>>

RunIdle ==
    /\ sheets = <<>>
    /\ pc = "off"
    /\ sector_idx = 0
    /\ clock = 0
    /\ dashboard_data = <<>>
    /\ dashboard_file = <<>>
    /\ summary_file = <<>>
    /\ stdout = <<>>

InitNorm ==
    /\ source_name \in NameInputs
    /\ npc = "raw"
    /\ cleaned = <<>>
    /\ recleaned = <<>>
    /\ RunIdle
    /\ ServerIdle

\* df['Source.Name'].apply(self.clean_phc_name), on one cell
ApplyClean ==
    /\ npc = "raw"
    /\ cleaned' = clean_phc_name(source_name)
    /\ npc' = "cleaned"
    /\ UNCHANGED <<source_name, recleaned>>
    /\ UNCHANGED runVars
    /\ UNCHANGED serverVars
    /\ UNCHANGED restVars

\* the normalizer applied to a name it has produced
ApplyCleanAgain ==
    /\ npc = "cleaned"
    /\ recleaned' = clean_phc_name(cleaned)
    /\ npc' = "recleaned"
    /\ UNCHANGED <<source_name, cleaned>>
    /\ UNCHANGED runVars
    /\ UNCHANGED serverVars
    /\ UNCHANGED restVars

NextNorm == ApplyClean \/ ApplyCleanAgain

SpecNorm == InitNorm /\ [][NextNorm]_vars

-----------------------------------------------------------------------------
(* Cells and rows of a sector sheet                                        *)

\* pandas' missing value in any other cell (an empty Excel cell).
NaN == "<NaN>"

\* self.sectors
sectors ==
    <<"western_sector", "eastern_sector", "northern_sector", "southern_sector">>

\* sector.replace('_sector', '')
SectorName(sector) ==
    CASE sector = "western_sector"  -> "western"
      [] sector = "eastern_sector"  -> "eastern"
      [] sector = "northern_sector" -> "northern"
      [] sector = "southern_sector" -> "southern"

\* a < b in Python's ordering of str: by the code points at the first
\* difference, a proper prefix first
StrLess(a, b) ==
    LET differ == { i \in 1..Len(a) : i <= Len(b) /\ CodePoint[a[i]] # CodePoint[b[i]] }
    IN  IF differ = {} THEN Len(a) < Len(b)
        ELSE CodePoint[a[MinOf(differ)]] < CodePoint[b[MinOf(differ)]]

RECURSIVE SortedKeys(_)
SortedKeys(S) ==
    IF S = {} THEN <<>>
    ELSE LET m == CHOOSE m \in S : \A o \in S : o = m \/ StrLess(m, o)
         IN  <<m>> \o SortedKeys(S \ {m})

-----------------------------------------------------------------------------
(* process_sector_data                                                     *)

\* DataFrame.drop_duplicates(subset=['National ID']): the first row of every value
RECURSIVE DropDuplicatesFrom(_, _, _)
DropDuplicatesFrom(rows, i, seen) ==
    IF i > Len(rows) THEN <<>>
    ELSE IF rows[i].NationalID \in seen THEN DropDuplicatesFrom(rows, i + 1, seen)
    ELSE <<rows[i]>> \o DropDuplicatesFrom(rows, i + 1, seen \cup {rows[i].NationalID})

drop_duplicates(rows) == DropDuplicatesFrom(rows, 1, {})

\* group[group['National ID'].notna()]
valid_id_rows(group) == SelectSeq(group, LAMBDA r : r.NationalID # NaN)

\* valid_id_rows.drop_duplicates(...) if not valid_id_rows.empty else pd.DataFrame()
unique_valid_rows(group) ==
    IF valid_id_rows(group) # <<>> THEN drop_duplicates(valid_id_rows(group)) ELSE <<>>

\* group[group['National ID'].isna()]
null_id_rows(group) == SelectSeq(group, LAMBDA r : r.NationalID = NaN)

total_population(group) == Len(unique_valid_rows(group)) + Len(null_id_rows(group))

\* A count of the rows of the subset, whatever their ids.
count_rows(subset_df) == Len(subset_df)

count_unique_with_nulls(subset_df) ==
    IF subset_df = <<>> THEN 0
    ELSE LET valid_ids == SelectSeq(subset_df, LAMBDA r : r.NationalID # NaN)
             null_ids  == SelectSeq(subset_df,
                                 LAMBDA r : r.NationalID = NaN \/ r.NationalID = "")
         IN  Len(drop_duplicates(valid_ids)) + Len(null_ids)

\* round(): to the nearest, a tie to the even neighbour
RoundHalfEven(n, d) ==
    LET q == n \div d
        r == n % d
    IN  IF 2 * r < d THEN q
        ELSE IF 2 * r > d THEN q + 1
        ELSE IF q % 2 = 0 THEN q ELSE q + 1

\* round(num / den * 100, digits) in units of 10^-digits (scale = 10^digits);
\* the division raises ZeroDivisionError when den is 0.
PyPercent(num, den, scale) ==
    IF den = 0 THEN [raised |-> TRUE, value |-> 0]
    ELSE [raised |-> FALSE, value |-> RoundHalfEven(num * 100 * scale, den)]

\* The rate without its guard (C5's mutant).
phc_rate_unguarded(num, den) == PyPercent(num, den, 10)

\* round((num / den * 100) if den > 0 else 0, 1), in tenths of a percent
phc_rate(num, den) ==
    IF den > 0 THEN PyPercent(num, den, 10) ELSE [raised |-> FALSE, value |-> 0]

\* The dict phc_data of one group, and whether computing it raised.
PhcData(phc_name, group) ==
    LET communicated == count_unique_with_nulls(SelectSeq(group, LAMBDA r : r.Response # NaN))
        accepted     == count_unique_with_nulls(SelectSeq(group, LAMBDA r : r.Response = "Accepted"))
        refused      == count_unique_with_nulls(SelectSeq(group, LAMBDA r : r.Response = "Refused"))
        wrong_number == count_unique_with_nulls(SelectSeq(group, LAMBDA r : r.Response = "Wrong number"))
        no_response  == count_unique_with_nulls(SelectSeq(group, LAMBDA r : r.Response = "No response"))
        in_person    == count_unique_with_nulls(SelectSeq(group, LAMBDA r : r.Scheduled = "In-Person"))
        virtual      == count_unique_with_nulls(SelectSeq(group, LAMBDA r : r.Scheduled = "Virtual"))
        arrived      == count_unique_with_nulls(SelectSeq(group, LAMBDA r : r.Arrived = "Yes"))
        enrolled     == count_unique_with_nulls(SelectSeq(group, LAMBDA r : r.Enrollment = "Yes"))
        acceptance    == phc_rate(accepted, communicated)
        enrollment    == phc_rate(enrolled, accepted)
        communication == phc_rate(communicated, total_population(group))
    IN  [ raised |-> acceptance.raised \/ enrollment.raised \/ communication.raised,
          data |->
            [ phc_name           |-> phc_name,
              total_population   |-> total_population(group),
              communicated       |-> communicated,
              accepted           |-> accepted,
              refused            |-> refused,
              wrong_number       |-> wrong_number,
              no_response        |-> no_response,
              in_person_visits   |-> in_person,
              virtual_visits     |-> virtual,
              arrived            |-> arrived,
              enrolled           |-> enrolled,
              acceptance_rate    |-> acceptance.value,
              enrollment_rate    |-> enrollment.value,
              communication_rate |-> communication.value ] ]

\* df['PHC_Clean'] of a row
PHC_Clean(r) == clean_phc_name(r.SourceName)

\* groupby(..., sort=False): the keys in the order of their first row (C12's mutant).
RECURSIVE FirstSeenKeys(_, _, _)
FirstSeenKeys(df, i, seen) ==
    IF i > Len(df) THEN <<>>
    ELSE IF PHC_Clean(df[i]) \in seen THEN FirstSeenKeys(df, i + 1, seen)
    ELSE <<PHC_Clean(df[i])>> \o FirstSeenKeys(df, i + 1, seen \cup {PHC_Clean(df[i])})

GroupKeysUnsorted(df) == SelectSeq(FirstSeenKeys(df, 1, {}), LAMBDA k : k # <<>>)

\* The groups of df.groupby('PHC_Clean'), in the order groupby yields them
\* (sorted by key), without the group of the empty name.
GroupKeys(df) ==
    SelectSeq(SortedKeys({ PHC_Clean(df[i]) : i \in 1..Len(df) }),
              LAMBDA k : k # <<>>)

GroupOf(df, phc_name) == SelectSeq(df, LAMBDA r : PHC_Clean(r) = phc_name)

\* list.sort(key=total_population, reverse=True): stable insertion, equal
\* keys keep their order
RECURSIVE InsertDesc(_, _)
InsertDesc(sorted, x) ==
    IF sorted = <<>> THEN <<x>>
    ELSE IF x.total_population > sorted[Len(sorted)].total_population
         THEN InsertDesc(SubSeq(sorted, 1, Len(sorted) - 1), x) \o <<sorted[Len(sorted)]>>
         ELSE sorted \o <<x>>

RECURSIVE SortDescFrom(_, _, _)
SortDescFrom(list, i, acc) ==
    IF i > Len(list) THEN acc
    ELSE SortDescFrom(list, i + 1, InsertDesc(acc, list[i]))

\* An ascending stable sort, reversed: equal keys end in reverse order
\* (C14's mutant).
RECURSIVE InsertAsc(_, _)
InsertAsc(sorted, x) ==
    IF sorted = <<>> THEN <<x>>
    ELSE IF x.total_population < sorted[Len(sorted)].total_population
         THEN InsertAsc(SubSeq(sorted, 1, Len(sorted) - 1), x) \o <<sorted[Len(sorted)]>>
         ELSE sorted \o <<x>>

RECURSIVE SortAscFrom(_, _, _)
SortAscFrom(list, i, acc) ==
    IF i > Len(list) THEN acc
    ELSE SortAscFrom(list, i + 1, InsertAsc(acc, list[i]))

SortAscReversed(list) ==
    [ i \in 1..Len(list) |-> SortAscFrom(list, 1, <<>>)[Len(list) + 1 - i] ]

SortByPopulationDesc(list) == SortDescFrom(list, 1, <<>>)

\* The debug lines of one group: the counts when rows were merged, and the
\* number of duplicate ids removed; 'Perfect count' otherwise.
PhcPrints(phc_name, group) ==
    IF Len(group) # total_population(group)
    THEN << [ kind         |-> "phc_count",
              phc_name     |-> phc_name,
              rows         |-> Len(group),
              valid_unique |-> Len(unique_valid_rows(group)),
              null         |-> Len(null_id_rows(group)),
              final        |-> total_population(group) ] >>
         \o (IF Len(valid_id_rows(group)) - Len(unique_valid_rows(group)) > 0
             THEN << [ kind  |-> "removed_duplicates",
                       count |-> Len(valid_id_rows(group)) - Len(unique_valid_rows(group)) ] >>
             ELSE <<>>)
    ELSE << [ kind |-> "perfect_count", phc_name |-> phc_name,
              final |-> total_population(group) ] >>

RECURSIVE GroupPrints(_, _, _)
GroupPrints(df, keys, k) ==
    IF k > Len(keys) THEN <<>>
    ELSE PhcPrints(keys[k], GroupOf(df, keys[k])) \o GroupPrints(df, keys, k + 1)

\* A sheet that read_excel loads as a table without a 'Source.Name' column:
\* one row that has every other column.
NoSourceNameColumn ==
    << [ NationalID |-> "A1", Response |-> "Accepted", Scheduled |-> "In-Person",
         Arrived |-> "Yes", Enrollment |-> "Yes" ] >>

\* The result of process_sector_data(df): the sorted list, what it printed,
\* and whether it raised; df['Source.Name'] raises KeyError when the column
\* is not there.
process_sector_data(df) ==
    IF df = NoSourceNameColumn
    THEN [ raised |-> TRUE, data |-> <<>>, printed |-> <<>> ]
    ELSE LET keys == GroupKeys(df)
             phcs == [ k \in 1..Len(keys) |-> PhcData(keys[k], GroupOf(df, keys[k])) ]
         IN  [ raised  |-> \E k \in 1..Len(keys) : phcs[k].raised,
               data    |-> SortByPopulationDesc([ k \in 1..Len(keys) |-> phcs[k].data ]),
               printed |-> GroupPrints(df, keys, 1) ]

-----------------------------------------------------------------------------
(* calculate_overview_metrics                                              *)

RECURSIVE SumPhcs(_, _, _)
SumPhcs(sector_data, field, i) ==
    IF i > Len(sector_data) THEN 0
    ELSE sector_data[i][field] + SumPhcs(sector_data, field, i + 1)

\* for sector_name, sector_data in sectors_data.items(): ... += phc[field]
RECURSIVE SumSectors(_, _, _)
SumSectors(sectors_data, field, k) ==
    IF k > Len(sectors) THEN 0
    ELSE (IF SectorName(sectors[k]) \in DOMAIN sectors_data
          THEN SumPhcs(sectors_data[SectorName(sectors[k])], field, 1) ELSE 0)
         + SumSectors(sectors_data, field, k + 1)

RECURSIVE CountPhcs(_, _)
CountPhcs(sectors_data, k) ==
    IF k > Len(sectors) THEN 0
    ELSE (IF SectorName(sectors[k]) \in DOMAIN sectors_data
          THEN Len(sectors_data[SectorName(sectors[k])]) ELSE 0)
         + CountPhcs(sectors_data, k + 1)

\* '=' in place of '+=': the value of the last facility visited (C6's mutant).
RECURSIVE LastPhc(_, _, _)
LastPhc(sectors_data, field, k) ==
    IF k = 0 THEN 0
    ELSE IF /\ SectorName(sectors[k]) \in DOMAIN sectors_data
            /\ sectors_data[SectorName(sectors[k])] # <<>>
         THEN LET sd == sectors_data[SectorName(sectors[k])] IN sd[Len(sd)][field]
         ELSE LastPhc(sectors_data, field, k - 1)

\* if den > 0: round((num / den) * 100, 2) else: 0, in hundredths of a percent
overview_rate(num, den) ==
    IF den > 0 THEN PyPercent(num, den, 100) ELSE [raised |-> FALSE, value |-> 0]

Overview(population, sectors_data) ==
    LET communicated == SumSectors(sectors_data, "communicated", 1)
        accepted     == SumSectors(sectors_data, "accepted", 1)
        enrolled     == SumSectors(sectors_data, "enrolled", 1)
        communication == overview_rate(communicated, population)
        acceptance    == overview_rate(accepted, communicated)
        enrollment    == overview_rate(enrolled, accepted)
    IN  [ raised |-> communication.raised \/ acceptance.raised \/ enrollment.raised,
          data |->
            [ total_population   |-> population,
              total_communicated |-> communicated,
              total_accepted     |-> accepted,
              total_refused      |-> SumSectors(sectors_data, "refused", 1),
              total_wrong_number |-> SumSectors(sectors_data, "wrong_number", 1),
              total_no_response  |-> SumSectors(sectors_data, "no_response", 1),
              total_enrolled     |-> enrolled,
              total_phc_centers  |-> CountPhcs(sectors_data, 1),
              total_arrived      |-> SumSectors(sectors_data, "arrived", 1),
              total_in_person    |-> SumSectors(sectors_data, "in_person_visits", 1),
              total_virtual      |-> SumSectors(sectors_data, "virtual_visits", 1),
              communication_rate |-> communication.value,
              acceptance_rate    |-> acceptance.value,
              enrollment_rate    |-> enrollment.value ] ]

calculate_overview_metrics_assign(sectors_data) ==
    Overview(LastPhc(sectors_data, "total_population", Len(sectors)), sectors_data)

\* An overview whose population starts from the persisted total instead of 0
\* (C13's mutant).
calculate_overview_metrics_accumulating(sectors_data) ==
    Overview(SumSectors(sectors_data, "total_population", 1)
               + (IF dashboard_file = <<>> THEN 0
                  ELSE dashboard_file.overview.total_population),
             sectors_data)

calculate_overview_metrics(sectors_data) ==
    Overview(SumSectors(sectors_data, "total_population", 1), sectors_data)

-----------------------------------------------------------------------------
(* generate_summary_report                                                 *)

\* sector_name.title()
Title(sector_name) ==
    CASE sector_name = "western"  -> "Western"
      [] sector_name = "eastern"  -> "Eastern"
      [] sector_name = "northern" -> "Northern"
      [] sector_name = "southern" -> "Southern"

\* The figures the report prints: the overview, and one line per sector.
generate_summary_report(data) ==
    LET loaded == SelectSeq(sectors, LAMBDA s : SectorName(s) \in DOMAIN data.sectors)
    IN  [ generated |-> data.last_updated,
          overview  |-> data.overview,
          breakdown |->
            [ k \in 1..Len(loaded) |->
                LET sd == data.sectors[SectorName(loaded[k])]
                IN  [ sector       |-> Title(SectorName(loaded[k])),
                      phcs         |-> Len(sd),
                      population   |-> SumPhcs(sd, "total_population", 1),
                      communicated |-> SumPhcs(sd, "communicated", 1),
                      enrolled     |-> SumPhcs(sd, "enrolled", 1) ] ] ]

-----------------------------------------------------------------------------
(* process_raw_data on bounded workbooks                                   *)

\* The workbook holds at most MaxRows rows in all.
MaxRows == 2

NamePhcA == <<"P", "H", "C", " ", "A", ".", "x", "l", "s", "x">>
NameB    == <<"B">>

RowNames  == { NamePhcA, NameB }
RowSheets == { "western_sector", "eastern_sector" }

\* read_excel turns an empty cell, and a cell holding '', into NaN; a cell
\* holding only whitespace stays a str.
RowIds    == { NaN, " ", "A1" }

\* What the outreach columns of a row hold.
Outcomes ==
    { [Response |-> NaN,            Scheduled |-> NaN,         Arrived |-> NaN,   Enrollment |-> NaN],
      [Response |-> "Accepted",     Scheduled |-> "In-Person", Arrived |-> "Yes", Enrollment |-> "Yes"],
      [Response |-> "Refused",      Scheduled |-> "Virtual",   Arrived |-> "No",  Enrollment |-> "Yes"],
      [Response |-> "Wrong number", Scheduled |-> NaN,         Arrived |-> NaN,   Enrollment |-> NaN],
      [Response |-> "No response",  Scheduled |-> NaN,         Arrived |-> NaN,   Enrollment |-> "No"] }

\* A row without a facility name.
UnnamedRow ==
    [ SourceName |-> NaNName, NationalID |-> "A1", Response |-> "Accepted",
      Scheduled |-> "In-Person", Arrived |-> "Yes", Enrollment |-> "Yes" ]

Rows ==
    { [ SourceName |-> n, NationalID |-> id, Response |-> o.Response,
        Scheduled |-> o.Scheduled, Arrived |-> o.Arrived, Enrollment |-> o.Enrollment ] :
      n \in RowNames, id \in RowIds, o \in Outcomes }
    \cup { UnnamedRow }

SheetNames == { sectors[k] : k \in 1..Len(sectors) }

RECURSIVE RowCount(_, _)
RowCount(book, k) ==
    IF k > Len(sectors) THEN 0
    ELSE (IF sectors[k] \in DOMAIN book THEN Len(book[sectors[k]]) ELSE 0)
         + RowCount(book, k + 1)

NormIdle ==
    /\ source_name = <<>>
    /\ npc = "off"
    /\ cleaned = <<>>
    /\ recleaned = <<>>

Init ==
    /\ sheets = [ s \in SheetNames |-> <<>> ]
    /\ pc = "workbook"
    /\ sector_idx = 0
    /\ clock = 0
    /\ dashboard_data = <<>>
    /\ dashboard_file = <<>>
    /\ summary_file = <<>>
    /\ stdout = <<>>
    /\ NormIdle
    /\ ServerIdle

\* The content of raw_query_data.xlsx before the run: one more row on a sheet.
AddRow(s, r) ==
    /\ pc = "workbook"
    /\ RowCount(sheets, 1) < MaxRows
    /\ sheets' = [sheets EXCEPT ![s] = Append(@, r)]
    /\ UNCHANGED <<pc, sector_idx, clock, dashboard_data, dashboard_file, summary_file,
                   stdout>>
    /\ UNCHANGED normVars
    /\ UNCHANGED serverVars
    /\ UNCHANGED restVars

\* process_raw_data: the dict is created and the workbook opened
Begin ==
    /\ pc = "workbook"
    /\ clock' = clock + 1
    /\ dashboard_data' = [ last_updated |-> clock', sectors |-> <<>>, overview |-> <<>> ]
    /\ sector_idx' = 1
    /\ pc' = "loop"
    /\ stdout' = Append(stdout, [kind |-> "opened", sheet_names |-> DOMAIN sheets])
    /\ UNCHANGED <<sheets, dashboard_file, summary_file>>
    /\ UNCHANGED normVars
    /\ UNCHANGED serverVars
    /\ UNCHANGED restVars

\* A read_excel that returns an empty table for a sheet that is not there
\* (C15's mutant).
read_excel_lenient(xl, sheet_name) ==
    IF sheet_name \in DOMAIN xl THEN [ raised |-> FALSE, df |-> xl[sheet_name] ]
    ELSE [ raised |-> FALSE, df |-> <<>> ]

\* pd.read_excel(xl, sheet_name=sector): the table of the sheet; raises when
\* the workbook has no sheet of that name.
read_excel(xl, sheet_name) ==
    IF sheet_name \in DOMAIN xl THEN [ raised |-> FALSE, df |-> xl[sheet_name] ]
    ELSE [ raised |-> TRUE, df |-> <<>> ]

\* One iteration of 'for sector in self.sectors': a sheet that read_excel
\* cannot read is reported and skipped, an exception of process_sector_data
\* leaves process_raw_data.
ProcessSector ==
    /\ pc = "loop"
    /\ LET sector == sectors[sector_idx]
           next   == IF sector_idx = Len(sectors) THEN "overview" ELSE "loop"
           read   == read_excel(sheets, sector)
       IN  IF read.raised
           THEN /\ pc' = next
                /\ stdout' = stdout \o
                       << [kind |-> "processing", sector |-> sector],
                          [kind |-> "error_reading", sector |-> sector],
                          [kind |-> "available_sheets", sheet_names |-> DOMAIN sheets] >>
                /\ UNCHANGED dashboard_data
           ELSE LET result == process_sector_data(read.df)
                    loaded == << [kind |-> "processing", sector |-> sector],
                                 [kind |-> "loaded", sector |-> sector,
                                  rows |-> Len(read.df)] >>
                IN  IF result.raised
                    THEN /\ pc' = "raised"
                         /\ stdout' = stdout \o loaded \o result.printed
                         /\ UNCHANGED dashboard_data
                    ELSE /\ pc' = next
                         /\ stdout' = stdout \o loaded \o result.printed
                         /\ dashboard_data' =
                              [dashboard_data EXCEPT
                                 !.sectors = (SectorName(sector) :> result.data) @@ @]
    /\ sector_idx' = sector_idx + 1
    /\ UNCHANGED <<sheets, clock, dashboard_file, summary_file>>
    /\ UNCHANGED normVars
    /\ UNCHANGED serverVars
    /\ UNCHANGED restVars

\* dashboard_data["overview"] = self.calculate_overview_metrics(...)
CalculateOverview ==
    /\ pc = "overview"
    /\ LET result == calculate_overview_metrics(dashboard_data.sectors)
       IN  IF result.raised
           THEN /\ pc' = "raised"
                /\ UNCHANGED <<dashboard_data, stdout>>
           ELSE /\ pc' = "save"
                /\ dashboard_data' = [dashboard_data EXCEPT !.overview = result.data]
                /\ stdout' = Append(stdout, [kind |-> "final_population_count",
                                             total_pop |-> result.data.total_population])
    /\ UNCHANGED <<sheets, sector_idx, clock, dashboard_file, summary_file>>
    /\ UNCHANGED normVars
    /\ UNCHANGED serverVars
    /\ UNCHANGED restVars

\* json.dump(dashboard_data, f) into dashboard_data.json
Save ==
    /\ pc = "save"
    /\ dashboard_file' = dashboard_data
    /\ pc' = "report"
    /\ stdout' = Append(stdout, [kind |-> "saved", file |-> "dashboard_data.json"])
    /\ UNCHANGED <<sheets, sector_idx, clock, dashboard_data, summary_file>>
    /\ UNCHANGED normVars
    /\ UNCHANGED serverVars
    /\ UNCHANGED restVars

\* self.generate_summary_report(dashboard_data); return dashboard_data
Report ==
    /\ pc = "report"
    /\ summary_file' = generate_summary_report(dashboard_data)
    /\ pc' = "done"
    /\ stdout' = stdout \o
           << [kind |-> "saved", file |-> "summary_report.txt"],
              [kind |-> "report", report |-> summary_file'] >>
    /\ UNCHANGED <<sheets, sector_idx, clock, dashboard_data, dashboard_file>>
    /\ UNCHANGED normVars
    /\ UNCHANGED serverVars
    /\ UNCHANGED restVars

Next ==
    \/ \E s \in RowSheets, r \in Rows : AddRow(s, r)
    \/ Begin
    \/ ProcessSector
    \/ CalculateOverview
    \/ Save
    \/ Report

Spec == Init /\ [][Next]_vars

-----------------------------------------------------------------------------
(* Runs on workbooks whose rows are all in the western sheet               *)

NextOrder ==
    \/ \E r \in Rows : AddRow("western_sector", r)
    \/ Begin
    \/ ProcessSector
    \/ CalculateOverview
    \/ Save
    \/ Report

SpecOrder == Init /\ [][NextOrder]_vars

-----------------------------------------------------------------------------
(* process_raw_data called again on the same workbook                      *)

\* The run is called at most MaxRuns times.
MaxRuns == 2

\* The rows of the workbooks that are processed more than once.
RerunRows ==
    { r \in Rows : r.NationalID # " " /\ r.Response \in {NaN, "Accepted"} }

\* process_raw_data once more, after a run that has returned: a new dict and
\* a new timestamp; the workbook and dashboard_data.json are as the earlier
\* run left them.
BeginAgain ==
    /\ pc = "done"
    /\ clock < MaxRuns
    /\ clock' = clock + 1
    /\ dashboard_data' = [ last_updated |-> clock', sectors |-> <<>>, overview |-> <<>> ]
    /\ sector_idx' = 1
    /\ pc' = "loop"
    /\ stdout' = Append(stdout, [kind |-> "opened", sheet_names |-> DOMAIN sheets])
    /\ UNCHANGED <<sheets, dashboard_file, summary_file>>
    /\ UNCHANGED normVars
    /\ UNCHANGED serverVars
    /\ UNCHANGED restVars

NextRerun ==
    \/ \E s \in RowSheets, r \in RerunRows : AddRow(s, r)
    \/ Begin
    \/ ProcessSector
    \/ CalculateOverview
    \/ Save
    \/ Report
    \/ BeginAgain

SpecRerun == Init /\ [][NextRerun]_vars

-----------------------------------------------------------------------------
(* process_raw_data on workbooks with one larger sheet                     *)

\* The sheet of the western sector holds at most MaxSectorRows rows.
MaxSectorRows == 4

NameC == <<"C">>

\* Rows of three facilities, with and without an id, and a row without a name.
SectorRows ==
    { [ SourceName |-> n, NationalID |-> id, Response |-> NaN,
        Scheduled |-> NaN, Arrived |-> NaN, Enrollment |-> NaN ] :
      n \in { NamePhcA, NameB, NameC }, id \in { NaN, "A1" } }
    \cup { UnnamedRow }

\* The content of the western sheet before the run: one more row.
AddSectorRow(r) ==
    /\ pc = "workbook"
    /\ Len(sheets["western_sector"]) < MaxSectorRows
    /\ sheets' = [sheets EXCEPT !["western_sector"] = Append(@, r)]
    /\ UNCHANGED <<pc, sector_idx, clock, dashboard_data, dashboard_file, summary_file,
                   stdout>>
    /\ UNCHANGED normVars
    /\ UNCHANGED serverVars
    /\ UNCHANGED restVars

NextSector ==
    \/ \E r \in SectorRows : AddSectorRow(r)
    \/ Begin
    \/ ProcessSector
    \/ CalculateOverview
    \/ Save
    \/ Report

SpecSector == Init /\ [][NextSector]_vars

-----------------------------------------------------------------------------
(* process_raw_data on workbooks with missing and malformed sheets         *)

\* A sheet holds at most MaxLoadRows rows.
MaxLoadRows == 1

\* A row of facility 'B' without an id, and a row without a name.
LoadRows ==
    { [ SourceName |-> NameB, NationalID |-> NaN, Response |-> "Accepted",
        Scheduled |-> NaN, Arrived |-> NaN, Enrollment |-> NaN ],
      UnnamedRow }

\* The workbook has no sheet of this name.
RemoveSheet(s) ==
    /\ pc = "workbook"
    /\ s \in DOMAIN sheets
    /\ sheets[s] = <<>>
    /\ sheets' = [ o \in DOMAIN sheets \ {s} |-> sheets[o] ]
    /\ UNCHANGED <<pc, sector_idx, clock, dashboard_data, dashboard_file, summary_file,
                   stdout>>
    /\ UNCHANGED normVars
    /\ UNCHANGED serverVars
    /\ UNCHANGED restVars

\* The sheet of this name has no 'Source.Name' column.
BreakSheet(s) ==
    /\ pc = "workbook"
    /\ s \in DOMAIN sheets
    /\ sheets[s] = <<>>
    /\ sheets' = [sheets EXCEPT ![s] = NoSourceNameColumn]
    /\ UNCHANGED <<pc, sector_idx, clock, dashboard_data, dashboard_file, summary_file,
                   stdout>>
    /\ UNCHANGED normVars
    /\ UNCHANGED serverVars
    /\ UNCHANGED restVars

\* One more row on a sheet that has its columns.
AddLoadRow(s, r) ==
    /\ pc = "workbook"
    /\ s \in DOMAIN sheets
    /\ sheets[s] # NoSourceNameColumn
    /\ Len(sheets[s]) < MaxLoadRows
    /\ sheets' = [sheets EXCEPT ![s] = Append(@, r)]
    /\ UNCHANGED <<pc, sector_idx, clock, dashboard_data, dashboard_file, summary_file,
                   stdout>>
    /\ UNCHANGED normVars
    /\ UNCHANGED serverVars
    /\ UNCHANGED restVars

NextLoad ==
    \/ \E s \in SheetNames : RemoveSheet(s)
    \/ \E s \in SheetNames : BreakSheet(s)
    \/ \E s \in SheetNames, r \in LoadRows : AddLoadRow(s, r)
    \/ Begin
    \/ ProcessSector
    \/ CalculateOverview
    \/ Save
    \/ Report

SpecLoad == Init /\ [][NextLoad]_vars

-----------------------------------------------------------------------------
(* The server (src/server.py): the HTTP thread and the scheduler threads   *)
(*                                                                         *)
(* socketserver.TCPServer handles one request at a time, so all handlers   *)
(* run in one thread (thread 0); every auto_refresh_data_with_settings is  *)
(* a thread of its own.  Requests carry a valid admin token and the        *)
(* download URL is configured.  A call of process_raw_data is three steps: *)
(* the workbook is opened and aggregated, dashboard_data.json is opened    *)
(* for writing (which empties it), and the dict is dumped into it.         *)

\* Scheduler threads that are ever started, calls of process_raw_data, and
\* steps of the clock.
MaxSchedulers == 1
MaxServerRuns == 2
MaxTicks == 2

\* config['refresh']['cooldown_seconds']
cooldown_seconds == 10

\* The clock moves in steps of TickSeconds and starts at StartTime.
TickSeconds == 5
StartTime == 10

HttpThread == 0
SchedulerIds == 1..MaxSchedulers
ThreadIds == {HttpThread} \cup SchedulerIds

DataFile  == "dashboard_data.json"
ExcelFile == "raw_query_data.xlsx"

\* What a file holds: kind tells what the text is, the other fields are the
\* keys of the JSON object it holds.  A JSON value is known by its type.
Absent      == [kind |-> "absent"]
EmptyFile   == [kind |-> "empty"]
CorruptFile == [kind |-> "corrupt"]

JsonObject == [type |-> "object"]
JsonArray  == [type |-> "array"]

\* The dict of process_raw_data: sectors maps a sector name to a list.
Snapshot(stamp) ==
    [ kind |-> "json", last_updated |-> stamp, sectors |-> JsonObject,
      overview |-> JsonObject ]

\* The dict start_dashboard_server writes when there is no dashboard_data.json.
minimal_data ==
    [ kind |-> "minimal", last_updated |-> "Not available", total_sectors |-> 0,
      total_inspections |-> 0, avg_score |-> "N/A", sectors |-> JsonArray,
      summary |-> "No data available. Please refresh from admin panel." ]
Workbook(good) == [kind |-> "xlsx", good |-> good]

\* config['onedrive']: download_url is configured; excel_url is absent (''),
\* the same URL, or another one.
DownloadUrl == "download_url"
ExcelUrl    == "excel_url"

Configs ==
    { [ download_url |-> DownloadUrl, excel_url |-> e ] : e \in {"", DownloadUrl, ExcelUrl} }

\* admin_refresh, attempt 2: if excel_url and excel_url != download_url
second_attempt_always(cfg) == TRUE

second_attempt(cfg) == cfg.excel_url # "" /\ cfg.excel_url # cfg.download_url

\* The settings, as save_auto_refresh_settings writes them to
\* auto_refresh_config.json and as the settings request answers them.
Settings(enabled) == [kind |-> "json", enabled |-> enabled]

\* json.load(f) succeeds
Readable(content) == content.kind \in {"json", "minimal"}

\* A thread: its function (task), its position in it (at), whether its stop
\* event is set, and its locals; before is dashboard_data.json as the request
\* found it, downloads the calls of download_from_onedrive of the request.
Thread(task, at) ==
    [ task |-> task, at |-> at, stop |-> FALSE, current_time |-> 0,
      download_success |-> FALSE, stamp |-> 0, before |-> Absent, downloads |-> 0 ]

Idle       == Thread("idle", "idle")
NotStarted == Thread("none", "none")

Response(handler, code, success, failed, before, body) ==
    [ handler |-> handler, code |-> code, success |-> success,
      failed |-> failed, before |-> before, body |-> body, downloads |-> 0 ]

NoResponse == Response("none", 0, FALSE, FALSE, Absent, Absent)

\* The server is serving: start_dashboard_server has found or written
\* dashboard_data.json, and no scheduler thread runs.
InitServer ==
    /\ files \in { [ f \in {DataFile, ExcelFile} |->
                       IF f = DataFile THEN d ELSE Absent ] :
                   d \in {minimal_data, Snapshot(0)} }
    /\ threads = [ t \in ThreadIds |-> IF t = HttpThread THEN Idle ELSE NotStarted ]
    /\ stop_event = 0
    /\ last_refresh_time = 0
    /\ now = StartTime
    /\ runs_started = 0
    /\ response = NoResponse
    /\ config \in Configs
    /\ AuthIdle
    /\ IntervalIdle
    /\ NormIdle
    /\ RunIdle

\* time.time() moves on
Tick ==
    /\ now < StartTime + MaxTicks * TickSeconds
    /\ now' = now + TickSeconds
    /\ UNCHANGED <<files, threads, stop_event, last_refresh_time, runs_started, response>>
    /\ UNCHANGED normVars
    /\ UNCHANGED runVars
    /\ UNCHANGED restVars

HttpIdle == threads[HttpThread] = Idle

\* The threads that are, or can become, scheduler threads.
Schedulers == DOMAIN threads \ {HttpThread}

\* GET /api/data
serve_dashboard_data ==
    /\ HttpIdle
    /\ response' =
         IF files[DataFile] = Absent
         THEN Response("serve_dashboard_data", 404, FALSE, FALSE, files[DataFile], Absent)
         ELSE IF Readable(files[DataFile])
         THEN Response("serve_dashboard_data", 200, TRUE, FALSE, files[DataFile], files[DataFile])
         ELSE Response("serve_dashboard_data", 500, FALSE, FALSE, files[DataFile], files[DataFile])
    /\ UNCHANGED <<files, threads, stop_event, last_refresh_time, now, runs_started>>
    /\ UNCHANGED normVars
    /\ UNCHANGED runVars
    /\ UNCHANGED restVars

\* POST /api/refresh: process_raw_data is called at once
refresh_data ==
    /\ HttpIdle
    /\ threads' = [threads EXCEPT ![HttpThread] =
                     [Thread("refresh_data", "call_run") EXCEPT !.before = files[DataFile]]]
    /\ UNCHANGED <<files, stop_event, last_refresh_time, now, runs_started, response>>
    /\ UNCHANGED normVars
    /\ UNCHANGED runVars
    /\ UNCHANGED restVars

\* An admin refresh without the cooldown test.
admin_refresh_uncooled ==
    /\ HttpIdle
    /\ threads' = [threads EXCEPT ![HttpThread] =
                     [Thread("admin_refresh", "download") EXCEPT
                        !.current_time = now, !.before = files[DataFile]]]
    /\ UNCHANGED <<files, stop_event, last_refresh_time, now, runs_started, response>>
    /\ UNCHANGED normVars
    /\ UNCHANGED runVars
    /\ UNCHANGED restVars

\* POST /admin/refresh: 429 within the cooldown, the download otherwise
admin_refresh ==
    /\ HttpIdle
    /\ IF now - last_refresh_time < cooldown_seconds
       THEN /\ response' = Response("admin_refresh", 429, FALSE, FALSE, files[DataFile], Absent)
            /\ UNCHANGED threads
       ELSE /\ threads' = [threads EXCEPT ![HttpThread] =
                             [Thread("admin_refresh", "download") EXCEPT
                                !.current_time = now, !.before = files[DataFile]]]
            /\ UNCHANGED response
    /\ UNCHANGED <<files, stop_event, last_refresh_time, now, runs_started>>
    /\ UNCHANGED normVars
    /\ UNCHANGED runVars
    /\ UNCHANGED restVars

\* POST /admin/force-cache-clear, steps 1 to 6: the files are removed and the
\* refresh timer is reset before anything is downloaded
force_cache_clear ==
    /\ HttpIdle
    /\ files' = [ f \in DOMAIN files |-> Absent ]
    /\ last_refresh_time' = 0
    /\ threads' = [threads EXCEPT ![HttpThread] =
                     [Thread("force_cache_clear", "download") EXCEPT !.before = files[DataFile]]]
    /\ UNCHANGED <<stop_event, now, runs_started, response>>
    /\ UNCHANGED normVars
    /\ UNCHANGED runVars
    /\ UNCHANGED restVars

\* A settings update that leaves the current thread running.
set_auto_refresh_settings_keep(enabled) ==
    /\ HttpIdle
    /\ LET stopped == threads
       IN  IF enabled
           THEN \E new \in Schedulers :
                    /\ threads[new] = NotStarted
                    /\ \A o \in Schedulers : o < new => threads[o] # NotStarted
                    /\ threads' = [stopped EXCEPT ![new] = Thread("scheduler", "wait")]
                    /\ stop_event' = new
           ELSE /\ threads' = stopped
                /\ UNCHANGED stop_event
    /\ response' = Response("set_auto_refresh_settings", 200, TRUE, FALSE, files[DataFile],
                            Settings(enabled))
    /\ UNCHANGED <<files, last_refresh_time, now, runs_started>>
    /\ UNCHANGED normVars
    /\ UNCHANGED runVars
    /\ UNCHANGED restVars

\* POST /admin/auto-refresh-settings: the stop event of the current thread is
\* set; with enabled, a new event and a new thread are created
set_auto_refresh_settings(enabled) ==
    /\ HttpIdle
    /\ LET stopped == IF stop_event = 0 THEN threads
                      ELSE [threads EXCEPT ![stop_event].stop = TRUE]
       IN  IF enabled
           THEN \E new \in Schedulers :
                    /\ threads[new] = NotStarted
                    /\ \A o \in Schedulers : o < new => threads[o] # NotStarted
                    /\ threads' = [stopped EXCEPT ![new] = Thread("scheduler", "wait")]
                    /\ stop_event' = new
           ELSE /\ threads' = stopped
                /\ UNCHANGED stop_event
    /\ response' = Response("set_auto_refresh_settings", 200, TRUE, FALSE, files[DataFile],
                            Settings(enabled))
    /\ UNCHANGED <<files, last_refresh_time, now, runs_started>>
    /\ UNCHANGED normVars
    /\ UNCHANGED runVars
    /\ UNCHANGED restVars

\* What a thread does when its download or its call of process_raw_data has
\* failed: a handler answers 500 with success false (the except clause of
\* the handler), the scheduler prints and goes back to waiting.
Failed(ths, t) ==
    IF t = HttpThread
    THEN /\ response' = [Response(ths[t].task, 500, FALSE, TRUE, ths[t].before, Absent)
                            EXCEPT !.downloads = ths[t].downloads]
         /\ threads' = [ths EXCEPT ![t] = Idle]
    ELSE /\ threads' = [ths EXCEPT ![t].at = "wait"]
         /\ UNCHANGED response

\* download_from_onedrive(url): on success raw_query_data.xlsx is written
\* (anything that starts with 'PK' passes, a workbook the pipeline can
\* process or not).  A failed download of force_cache_clear is only printed;
\* after a failed first download admin_refresh calls it again with excel_url
\* when that is configured and differs from download_url
download_from_onedrive(t) ==
    /\ threads[t].at = "download"
    /\ LET called == [threads EXCEPT ![t].downloads = @ + 1]
       IN  \/ \E good \in BOOLEAN :
                 /\ files' = [files EXCEPT ![ExcelFile] = Workbook(good)]
                 /\ threads' = [called EXCEPT ![t].at = "call_run",
                                              ![t].download_success = TRUE]
                 /\ UNCHANGED response
           \/ /\ UNCHANGED files
              /\ IF threads[t].task = "force_cache_clear"
                 THEN /\ threads' = [called EXCEPT ![t].at = "reload"]
                      /\ UNCHANGED response
                 ELSE IF /\ threads[t].task = "admin_refresh"
                         /\ threads[t].downloads = 0
                         /\ second_attempt(config)
                 THEN /\ threads' = called
                      /\ UNCHANGED response
                 ELSE Failed(called, t)
    /\ UNCHANGED <<stop_event, last_refresh_time, now, runs_started>>
    /\ UNCHANGED normVars
    /\ UNCHANGED runVars
    /\ UNCHANGED restVars

\* processor.process_raw_data(), up to the overview: pd.ExcelFile raises when
\* raw_query_data.xlsx is not there or is no workbook, process_sector_data
\* when a sheet is malformed
RunOpen(t) ==
    /\ threads[t].at = "call_run"
    /\ IF files[ExcelFile] = Workbook(TRUE)
       THEN /\ runs_started < MaxServerRuns
            /\ runs_started' = runs_started + 1
            /\ threads' = [threads EXCEPT ![t].at = "run", ![t].stamp = runs_started']
            /\ UNCHANGED response
       ELSE /\ Failed(threads, t)
            /\ UNCHANGED runs_started
    /\ UNCHANGED <<files, stop_event, last_refresh_time, now>>
    /\ UNCHANGED normVars
    /\ UNCHANGED runVars
    /\ UNCHANGED restVars

\* with open('dashboard_data.json', 'w', encoding='utf-8') as f:
RunTruncate(t) ==
    /\ threads[t].at = "run"
    /\ files' = [files EXCEPT ![DataFile] = EmptyFile]
    /\ threads' = [threads EXCEPT ![t].at = "dumping"]
    /\ UNCHANGED <<stop_event, last_refresh_time, now, runs_started, response>>
    /\ UNCHANGED normVars
    /\ UNCHANGED runVars
    /\ UNCHANGED restVars

\* json.dump(dashboard_data, f), the report, and the return: when another
\* thread has written since this one emptied the file, the two texts may be
\* mixed
RunDump(t) ==
    /\ threads[t].at = "dumping"
    /\ \E content \in {Snapshot(threads[t].stamp)}
                        \cup (IF files[DataFile] = EmptyFile THEN {} ELSE {CorruptFile}) :
           files' = [files EXCEPT ![DataFile] = content]
    /\ threads' = [threads EXCEPT ![t].at = "after_run"]
    /\ UNCHANGED <<stop_event, last_refresh_time, now, runs_started, response>>
    /\ UNCHANGED normVars
    /\ UNCHANGED runVars
    /\ UNCHANGED restVars

\* refresh_data after the run: 200, success true
RefreshDataDone ==
    /\ threads[HttpThread].task = "refresh_data"
    /\ threads[HttpThread].at = "after_run"
    /\ response' = Response("refresh_data", 200, TRUE, FALSE,
                            threads[HttpThread].before, Absent)
    /\ threads' = [threads EXCEPT ![HttpThread] = Idle]
    /\ UNCHANGED <<files, stop_event, last_refresh_time, now, runs_started>>
    /\ UNCHANGED normVars
    /\ UNCHANGED runVars
    /\ UNCHANGED restVars

\* admin_refresh after the run: the workbook is deleted, last_refresh_time is
\* set to the time of the cooldown check, and dashboard_data.json is read for
\* the record count (json.load raises on a file that is being written)
AdminRefreshDone ==
    /\ threads[HttpThread].task = "admin_refresh"
    /\ threads[HttpThread].at = "after_run"
    /\ files' = [files EXCEPT ![ExcelFile] = Absent]
    /\ last_refresh_time' = threads[HttpThread].current_time
    /\ response' =
         IF files[DataFile] = Absent \/ Readable(files[DataFile])
         THEN [Response("admin_refresh", 200, TRUE, FALSE,
                        threads[HttpThread].before, files[DataFile])
                 EXCEPT !.downloads = threads[HttpThread].downloads]
         ELSE [Response("admin_refresh", 500, FALSE, TRUE,
                        threads[HttpThread].before, Absent)
                 EXCEPT !.downloads = threads[HttpThread].downloads]
    /\ threads' = [threads EXCEPT ![HttpThread] = Idle]
    /\ UNCHANGED <<stop_event, now, runs_started>>
    /\ UNCHANGED normVars
    /\ UNCHANGED runVars
    /\ UNCHANGED restVars

\* force_cache_clear after the run: the workbook is deleted
ForceCacheClearCleanup ==
    /\ threads[HttpThread].task = "force_cache_clear"
    /\ threads[HttpThread].at = "after_run"
    /\ files' = [files EXCEPT ![ExcelFile] = Absent]
    /\ threads' = [threads EXCEPT ![HttpThread].at = "reload"]
    /\ UNCHANGED <<stop_event, last_refresh_time, now, runs_started, response>>
    /\ UNCHANGED normVars
    /\ UNCHANGED runVars
    /\ UNCHANGED restVars

\* force_cache_clear, step 8 and the answer: load_dashboard_data() swallows
\* its errors, and the answer is 200 with success true whether or not the
\* download succeeded
ForceCacheClearDone ==
    /\ threads[HttpThread].task = "force_cache_clear"
    /\ threads[HttpThread].at = "reload"
    /\ response' = [Response("force_cache_clear", 200, TRUE,
                             ~threads[HttpThread].download_success,
                             threads[HttpThread].before, files[DataFile])
                       EXCEPT !.downloads = threads[HttpThread].downloads]
    /\ threads' = [threads EXCEPT ![HttpThread] = Idle]
    /\ UNCHANGED <<files, stop_event, last_refresh_time, now, runs_started>>
    /\ UNCHANGED normVars
    /\ UNCHANGED runVars
    /\ UNCHANGED restVars

\* The wake of a scheduler that does not look at its stop event.
SchedulerWakeUnchecked(t) ==
    /\ threads[t].task = "scheduler"
    /\ threads[t].at = "wait"
    /\ threads' = [threads EXCEPT ![t].at = "download", ![t].downloads = 0,
                                  ![t].download_success = FALSE]
    /\ UNCHANGED <<files, stop_event, last_refresh_time, now, runs_started, response>>
    /\ UNCHANGED normVars
    /\ UNCHANGED runVars
    /\ UNCHANGED restVars

\* auto_refresh_data_with_settings: the interval has passed and the stop event
\* is not set (the tests of lines 1133 and 1140); the refresh begins here
SchedulerWake(t) ==
    /\ threads[t].task = "scheduler"
    /\ threads[t].at = "wait"
    /\ ~threads[t].stop
    /\ threads' = [threads EXCEPT ![t].at = "download", ![t].downloads = 0,
                                  ![t].download_success = FALSE]
    /\ UNCHANGED <<files, stop_event, last_refresh_time, now, runs_started, response>>
    /\ UNCHANGED normVars
    /\ UNCHANGED runVars
    /\ UNCHANGED restVars

\* auto_refresh_data_with_settings: the stop event is seen while waiting
SchedulerExit(t) ==
    /\ threads[t].task = "scheduler"
    /\ threads[t].at = "wait"
    /\ threads[t].stop
    /\ threads' = [threads EXCEPT ![t].task = "exited", ![t].at = "exited"]
    /\ UNCHANGED <<files, stop_event, last_refresh_time, now, runs_started, response>>
    /\ UNCHANGED normVars
    /\ UNCHANGED runVars
    /\ UNCHANGED restVars

\* auto_refresh_data_with_settings after the run: last_refresh_time is set
\* and the workbook is deleted
SchedulerDone(t) ==
    /\ threads[t].task = "scheduler"
    /\ threads[t].at = "after_run"
    /\ last_refresh_time' = now
    /\ files' = [files EXCEPT ![ExcelFile] = Absent]
    /\ threads' = [threads EXCEPT ![t].at = "wait"]
    /\ UNCHANGED <<stop_event, now, runs_started, response>>
    /\ UNCHANGED normVars
    /\ UNCHANGED runVars
    /\ UNCHANGED restVars

NextServer ==
    \/ Tick
    \/ serve_dashboard_data
    \/ refresh_data
    \/ admin_refresh
    \/ force_cache_clear
    \/ \E enabled \in BOOLEAN : set_auto_refresh_settings(enabled)
    \/ \E t \in ThreadIds : download_from_onedrive(t)
    \/ \E t \in ThreadIds : RunOpen(t)
    \/ \E t \in ThreadIds : RunTruncate(t)
    \/ \E t \in ThreadIds : RunDump(t)
    \/ RefreshDataDone
    \/ AdminRefreshDone
    \/ ForceCacheClearCleanup
    \/ ForceCacheClearDone
    \/ \E t \in SchedulerIds : SchedulerWake(t)
    \/ \E t \in SchedulerIds : SchedulerExit(t)
    \/ \E t \in SchedulerIds : SchedulerDone(t)

SpecServer == InitServer /\ [][NextServer]_vars

-----------------------------------------------------------------------------
(* The settings requests and the scheduler threads they start and stop    *)

\* Scheduler threads that POST /admin/auto-refresh-settings ever starts.
MaxSettingsSchedulers == 2

SettingsSchedulerIds == 1..MaxSettingsSchedulers

\* The server is serving, as in InitServer; no other request than the
\* settings update is made.
InitSettings ==
    /\ files = [ f \in {DataFile, ExcelFile} |-> IF f = DataFile THEN Snapshot(0) ELSE Absent ]
    /\ threads = [ t \in {HttpThread} \cup SettingsSchedulerIds |->
                     IF t = HttpThread THEN Idle ELSE NotStarted ]
    /\ stop_event = 0
    /\ last_refresh_time = 0
    /\ now = StartTime
    /\ runs_started = 0
    /\ response = NoResponse
    /\ config \in { c \in Configs : c.excel_url = "" }
    /\ AuthIdle
    /\ IntervalIdle
    /\ NormIdle
    /\ RunIdle

NextSettings ==
    \/ \E enabled \in BOOLEAN : set_auto_refresh_settings(enabled)
    \/ \E t \in SettingsSchedulerIds : SchedulerWake(t)
    \/ \E t \in SettingsSchedulerIds : SchedulerExit(t)
    \/ \E t \in SettingsSchedulerIds : download_from_onedrive(t)
    \/ \E t \in SettingsSchedulerIds : RunOpen(t)
    \/ \E t \in SettingsSchedulerIds : RunTruncate(t)
    \/ \E t \in SettingsSchedulerIds : RunDump(t)
    \/ \E t \in SettingsSchedulerIds : SchedulerDone(t)

SpecSettings == InitSettings /\ [][NextSettings]_vars

-----------------------------------------------------------------------------
(* start_dashboard_server, from its call to serve_forever                  *)
(*                                                                         *)
(* Until the scheduler thread is started the main thread is the only one,  *)
(* so each part of the function is one step.                               *)

SettingsFile == "auto_refresh_config.json"

\* load_auto_refresh_settings: auto_refresh_settings["enabled"] is True unless
\* the file says otherwise
load_auto_refresh_settings(fs) ==
    IF fs[SettingsFile] = Absent THEN TRUE ELSE fs[SettingsFile].enabled

StartupAt(at) ==
    /\ threads[HttpThread].task = "start_dashboard_server"
    /\ threads[HttpThread].at = at

InitStartup ==
    /\ files \in { [ f \in {DataFile, ExcelFile, SettingsFile} |->
                       IF f = DataFile THEN d ELSE IF f = ExcelFile THEN x ELSE a ] :
                   d \in {Absent, Snapshot(0)},
                   x \in {Absent, Workbook(TRUE), Workbook(FALSE)},
                   a \in {Absent, Settings(TRUE), Settings(FALSE)} }
    /\ threads = [ t \in ThreadIds |->
                     IF t = HttpThread THEN Thread("start_dashboard_server", "data")
                     ELSE NotStarted ]
    /\ stop_event = 0
    /\ last_refresh_time = 0
    /\ now = StartTime
    /\ runs_started = 0
    /\ response = NoResponse
    /\ config \in Configs
    /\ AuthIdle
    /\ IntervalIdle
    /\ NormIdle
    /\ RunIdle

\* lines 1189-1212: without a dashboard_data.json the minimal structure is written
StartupData ==
    /\ StartupAt("data")
    /\ files' = IF files[DataFile] = Absent
                THEN [files EXCEPT ![DataFile] = minimal_data]
                ELSE files
    /\ threads' = [threads EXCEPT ![HttpThread].at = "local"]
    /\ UNCHANGED <<stop_event, last_refresh_time, now, runs_started, response>>
    /\ UNCHANGED normVars
    /\ UNCHANGED runVars
    /\ UNCHANGED restVars

\* lines 1214-1259: a raw_query_data.xlsx that is there is processed (twice)
\* and deleted; when it cannot be processed, that is printed
StartupLocal ==
    /\ StartupAt("local")
    /\ IF files[ExcelFile] = Workbook(TRUE)
       THEN /\ files' = [files EXCEPT ![DataFile] = Snapshot(runs_started + 2),
                                      ![ExcelFile] = Absent]
            /\ runs_started' = runs_started + 2
       ELSE UNCHANGED <<files, runs_started>>
    /\ threads' = [threads EXCEPT ![HttpThread].at = "sync"]
    /\ UNCHANGED <<stop_event, last_refresh_time, now, response>>
    /\ UNCHANGED normVars
    /\ UNCHANGED runVars
    /\ UNCHANGED restVars

\* lines 1261-1290: the initial download; what it delivers is processed and
\* deleted, and every failure is printed
StartupSync ==
    /\ StartupAt("sync")
    /\ \/ /\ files' = [files EXCEPT ![DataFile] = Snapshot(runs_started + 1),
                                     ![ExcelFile] = Absent]
          /\ runs_started' = runs_started + 1
       \/ /\ files' = [files EXCEPT ![ExcelFile] = Workbook(FALSE)]
          /\ UNCHANGED runs_started
       \/ UNCHANGED <<files, runs_started>>
    /\ threads' = [threads EXCEPT ![HttpThread].at = "scheduler",
                                  ![HttpThread].downloads = 1]
    /\ UNCHANGED <<stop_event, last_refresh_time, now, response>>
    /\ UNCHANGED normVars
    /\ UNCHANGED runVars
    /\ UNCHANGED restVars

\* lines 1292-1304 and 1320-1321: with auto-refresh enabled the stop event is
\* created, and building the Thread reads auto_refresh_settings
\* ["interval_minutes"], a key the dict never has: the KeyError is printed by
\* the except clause of the function, which returns (stop_event then names
\* the event of a thread that was never created)
StartupScheduler ==
    /\ StartupAt("scheduler")
    /\ IF load_auto_refresh_settings(files)
       THEN /\ stop_event' = 1
            /\ threads' = [threads EXCEPT ![HttpThread].at = "returned"]
       ELSE /\ UNCHANGED stop_event
            /\ threads' = [threads EXCEPT ![HttpThread].at = "serve"]
    /\ UNCHANGED <<files, last_refresh_time, now, runs_started, response>>
    /\ UNCHANGED normVars
    /\ UNCHANGED runVars
    /\ UNCHANGED restVars

\* lines 1306-1317: the TCPServer is created and serves
StartupServe ==
    /\ StartupAt("serve")
    /\ threads' = [threads EXCEPT ![HttpThread] = Idle]
    /\ UNCHANGED <<files, stop_event, last_refresh_time, now, runs_started, response>>
    /\ UNCHANGED normVars
    /\ UNCHANGED runVars
    /\ UNCHANGED restVars

NextStartup ==
    \/ StartupData
    \/ StartupLocal
    \/ StartupSync
    \/ StartupScheduler
    \/ StartupServe

SpecStartup == InitStartup /\ [][NextStartup]_vars

-----------------------------------------------------------------------------
(* The admin sessions: admin_login and is_admin_authenticated              *)
(*                                                                         *)
(* A token is the number of the uuid4() call that made it (uuid4 never     *)
(* returns a value twice); a request may present any token, made or not,   *)
(* and token 0 stands for a missing or malformed Authorization header.     *)

\* Logins that succeed, and steps of the clock.
MaxTokens == 2
MaxAuthTicks == 4

\* The clock moves in steps of AuthTickSeconds.
AuthTickSeconds == 900

\* config['admin']
AdminPassword == "admin-password"
session_timeout_minutes == 30

AuthConfig == [ password |-> AdminPassword, session_timeout_minutes |-> session_timeout_minutes ]

\* data.get('password'): absent, wrong, or right
NoPassword == "None"
Passwords == { NoPassword, "guess", AdminPassword }

Tokens == 0..MaxTokens

InitAuth ==
    /\ AuthIdle
    /\ IntervalIdle
    /\ files = <<>>
    /\ threads = <<>>
    /\ stop_event = 0
    /\ last_refresh_time = 0
    /\ now = 0
    /\ runs_started = 0
    /\ response = NoResponse
    /\ config = AuthConfig
    /\ NormIdle
    /\ RunIdle

\* time.time() moves on
AuthTick ==
    /\ now < MaxAuthTicks * AuthTickSeconds
    /\ now' = now + AuthTickSeconds
    /\ UNCHANGED <<files, threads, stop_event, last_refresh_time, runs_started, response,
                   config>>
    /\ UNCHANGED authVars
    /\ UNCHANGED intervalVars
    /\ UNCHANGED normVars
    /\ UNCHANGED runVars

\* POST /admin/login
admin_login(password) ==
    /\ IF password = config.password
       THEN /\ uuids < MaxTokens
            /\ uuids' = uuids + 1
            /\ admin_sessions' =
                  [ t \in DOMAIN admin_sessions \cup {uuids'} |->
                      IF t = uuids'
                      THEN [ expires |-> now + config.session_timeout_minutes * 60,
                             created |-> now ]
                      ELSE admin_sessions[t] ]
            /\ response' = Response("admin_login", 200, TRUE, FALSE, Absent,
                                    [kind |-> "json", token |-> uuids'])
       ELSE /\ response' = Response("admin_login", 401, FALSE, FALSE, Absent, Absent)
            /\ UNCHANGED <<admin_sessions, uuids>>
    /\ UNCHANGED <<files, threads, stop_event, last_refresh_time, now, runs_started, config>>
    /\ UNCHANGED <<auth, expired_seen>>
    /\ UNCHANGED intervalVars
    /\ UNCHANGED normVars
    /\ UNCHANGED runVars

\* A check of the token that never looks at the expiry.
is_admin_authenticated_unexpiring(token) ==
    /\ auth' = [token |-> token, result |-> token \in DOMAIN admin_sessions]
    /\ UNCHANGED <<admin_sessions, expired_seen>>
    /\ UNCHANGED <<files, threads, stop_event, last_refresh_time, now, runs_started, response,
                   config, uuids>>
    /\ UNCHANGED intervalVars
    /\ UNCHANGED normVars
    /\ UNCHANGED runVars

\* is_admin_authenticated(auth_header), called by every admin endpoint
is_admin_authenticated(token) ==
    /\ IF token = 0 \/ token \notin DOMAIN admin_sessions
       THEN /\ auth' = [token |-> token, result |-> FALSE]
            /\ UNCHANGED <<admin_sessions, expired_seen>>
       ELSE IF now > admin_sessions[token].expires
       THEN /\ admin_sessions' =
                  [ t \in DOMAIN admin_sessions \ {token} |-> admin_sessions[t] ]
            /\ expired_seen' = expired_seen \cup {token}
            /\ auth' = [token |-> token, result |-> FALSE]
       ELSE /\ auth' = [token |-> token, result |-> TRUE]
            /\ UNCHANGED <<admin_sessions, expired_seen>>
    /\ UNCHANGED <<files, threads, stop_event, last_refresh_time, now, runs_started, response,
                   config, uuids>>
    /\ UNCHANGED intervalVars
    /\ UNCHANGED normVars
    /\ UNCHANGED runVars

NextAuth ==
    \/ AuthTick
    \/ \E password \in Passwords : admin_login(password)
    \/ \E token \in Tokens : is_admin_authenticated(token)

SpecAuth == InitAuth /\ [][NextAuth]_vars

-----------------------------------------------------------------------------
(* get_next_refresh_interval                                               *)
(*                                                                         *)
(* A time of day is its number of seconds since midnight; the text of a    *)
(* work hour ("08:00") is its two numbers.                                 *)

\* datetime.weekday(): 0 = Monday ... 6 = Sunday
PyDays == <<"Monday", "Tuesday", "Wednesday", "Thursday", "Friday", "Saturday", "Sunday">>

weekday(day) == (CHOOSE k \in 1..7 : PyDays[k] = day) - 1

\* The day number without the conversion to 0 = Sunday.
current_weekday_unconverted(day) == weekday(day)

\* current_weekday = (current_weekday + 1) % 7
current_weekday(day) == (weekday(day) + 1) % 7

HourText(h, m) == [h |-> h, m |-> m]

\* datetime.strptime(text, "%H:%M").time(): raises on an hour or a minute
\* that does not exist
strptime(text) ==
    IF text.h \in 0..23 /\ text.m \in 0..59
    THEN [raised |-> FALSE, time |-> text.h * 3600 + text.m * 60]
    ELSE [raised |-> TRUE, time |-> 0]

\* The datetime the function works with: now in the configured timezone,
\* or, when pytz does not know the timezone, the system's local time.
Now(st) == IF st.timezone_known THEN st.now_tz ELSE st.now_system

\* The advanced branch, inside the try: a key that is missing and a work
\* hour that does not parse raise, and the except clause returns
\* simple_interval_minutes
advanced_interval(st) ==
    LET schedule == st.advanced_schedule
        day      == current_weekday(Now(st).day)
    IN  IF "weekend_days" \notin DOMAIN schedule
        THEN st.simple_interval_minutes
        ELSE IF day \in schedule.weekend_days.days
        THEN schedule.weekend_days.interval_minutes
        ELSE IF day \in schedule.work_days.days
        THEN LET work_hours == schedule.work_days.work_hours
                 start_time == strptime(work_hours.start)
                 end_time   == strptime(work_hours.end)
             IN  IF start_time.raised \/ end_time.raised
                 THEN st.simple_interval_minutes
                 ELSE IF /\ start_time.time <= Now(st).time
                         /\ Now(st).time <= end_time.time
                 THEN work_hours.interval_minutes
                 ELSE schedule.work_days.after_hours.interval_minutes
        ELSE st.simple_interval_minutes

get_next_refresh_interval(st) ==
    IF st.mode = "simple" THEN st.simple_interval_minutes
    ELSE advanced_interval(st)

\* Work hours, work days and weekend days that a settings request may set.
WorkHours ==
    { [ start |-> HourText(8, 0),  end |-> HourText(17, 0), interval_minutes |-> 10 ],
      [ start |-> HourText(17, 0), end |-> HourText(8, 0),  interval_minutes |-> 10 ],
      [ start |-> HourText(8, 0),  end |-> HourText(24, 0), interval_minutes |-> 10 ] }

WorkDays == { {0, 1, 2, 3, 4}, {1, 2, 3, 4} }

WeekendDays == { {5, 6}, {0, 5, 6} }

Schedules ==
    { [ work_days |-> [ days |-> wd, work_hours |-> wh,
                        after_hours |-> [interval_minutes |-> 180] ],
        weekend_days |-> [ days |-> we, interval_minutes |-> 240 ] ] :
      wd \in WorkDays, wh \in WorkHours, we \in WeekendDays }
    \cup
    { [ work_days |-> [ days |-> wd, work_hours |-> wh,
                        after_hours |-> [interval_minutes |-> 180] ] ] :
      wd \in WorkDays, wh \in { w \in WorkHours : w.end = HourText(17, 0) } }

\* Times of day around the work hours 08:00 to 17:00.
ClockTimes ==
    { 8 * 3600 - 1, 8 * 3600, 12 * 3600, 17 * 3600, 17 * 3600 + 1 }

SettingsInputs ==
    { [ mode |-> m, simple_interval_minutes |-> 120, advanced_schedule |-> sch,
        timezone_known |-> known,
        now_tz |-> [day |-> d, time |-> t],
        now_system |-> [day |-> "Friday", time |-> 12 * 3600] ] :
      m \in {"simple", "advanced"}, sch \in Schedules, known \in BOOLEAN,
      d \in { PyDays[k] : k \in 1..7 }, t \in ClockTimes }

InitInterval ==
    /\ settings \in SettingsInputs
    /\ interval = 0
    /\ AuthIdle
    /\ files = <<>>
    /\ threads = <<>>
    /\ stop_event = 0
    /\ last_refresh_time = 0
    /\ now = 0
    /\ runs_started = 0
    /\ response = <<>>
    /\ config = <<>>
    /\ NormIdle
    /\ RunIdle

\* current_interval = get_next_refresh_interval()
GetInterval ==
    /\ interval = 0
    /\ interval' = get_next_refresh_interval(settings)
    /\ UNCHANGED settings
    /\ UNCHANGED <<files, threads, stop_event, last_refresh_time, now, runs_started, response,
                   config>>
    /\ UNCHANGED authVars
    /\ UNCHANGED normVars
    /\ UNCHANGED runVars

NextInterval == GetInterval

SpecInterval == InitInterval /\ [][NextInterval]_vars

-----------------------------------------------------------------------------
(* Properties of the counting (checked under Spec)                         *)

\* The sectors whose report the run has stored so far.
Started == pc \notin {"off", "workbook"}

Loaded(sector) == Started /\ SectorName(sector) \in DOMAIN dashboard_data.sectors

ReportOf(sector) == dashboard_data.sectors[SectorName(sector)]

\* The facilities reported so far: <<sector, position in the sector's list>>.
Facilities ==
    { f \in SheetNames \X (1..MaxRows + 1) : Loaded(f[1]) /\ f[2] <= Len(ReportOf(f[1])) }

Phc(f) == ReportOf(f[1])[f[2]]

OverviewDone == pc \in {"save", "report", "done"}

\* The rows (by index) of a facility's group in its sheet, and their keys.
GroupIdx(f) ==
    { i \in 1..Len(sheets[f[1]]) : PHC_Clean(sheets[f[1]][i]) = Phc(f).phc_name }

IdOf(f, i) == sheets[f[1]][i].NationalID

\* An identity-key is usable when it is present and not blank.
IsBlankId(id) == id \in {"", " "}

Keyed(id) == id # NaN /\ ~IsBlankId(id)

\* Distinct usable keys, plus one for every record without a usable key.
PolicyCount(f, I) ==
    Cardinality({ IdOf(f, i) : i \in { j \in I : Keyed(IdOf(f, j)) } })
    + Cardinality({ i \in I : ~Keyed(IdOf(f, i)) })

\* The tracked metrics and the rows each one filters.
Metrics ==
    { "communicated", "accepted", "refused", "wrong_number", "no_response",
      "in_person_visits", "virtual_visits", "arrived", "enrolled" }

Passes(metric, r) ==
    CASE metric = "communicated"     -> r.Response # NaN
      [] metric = "accepted"         -> r.Response = "Accepted"
      [] metric = "refused"          -> r.Response = "Refused"
      [] metric = "wrong_number"     -> r.Response = "Wrong number"
      [] metric = "no_response"      -> r.Response = "No response"
      [] metric = "in_person_visits" -> r.Scheduled = "In-Person"
      [] metric = "virtual_visits"   -> r.Scheduled = "Virtual"
      [] metric = "arrived"          -> r.Arrived = "Yes"
      [] metric = "enrolled"         -> r.Enrollment = "Yes"

FilteredIdx(f, metric) == { i \in GroupIdx(f) : Passes(metric, sheets[f[1]][i]) }

\* C1: total_population of every facility is the number of distinct usable
\* (present, non-blank) identity-keys of its group plus the number of its
\* records whose identity-key is absent or blank.
C1_Population ==
    \A f \in Facilities : Phc(f).total_population = PolicyCount(f, GroupIdx(f))

\* C2: every tracked metric of a facility is that same rule (distinct usable
\* keys plus one per record with an absent or blank key) applied to the
\* records of the group that pass the metric's filter.
C2_FilterThenResolve ==
    \A f \in Facilities : \A metric \in Metrics :
        Phc(f)[metric] = PolicyCount(f, FilteredIdx(f, metric))

\* C3: for the full group and for every filtered subset, the unique count is
\* at most the number of records, with equality exactly when no identity-key
\* is shared by two records.
KeyRepeats(f, I) ==
    \E i \in I, j \in I : i # j /\ Keyed(IdOf(f, i)) /\ IdOf(f, i) = IdOf(f, j)

C3_Bound(f, count, I) ==
    /\ count <= Cardinality(I)
    /\ count = Cardinality(I) <=> ~KeyRepeats(f, I)

C3_AtMostRecords ==
    \A f \in Facilities :
        /\ C3_Bound(f, Phc(f).total_population, GroupIdx(f))
        /\ \A metric \in Metrics : C3_Bound(f, Phc(f)[metric], FilteredIdx(f, metric))

\* C4: the three rates of every facility and of the overview lie in [0, 100]
\* (facility rates are in tenths, overview rates in hundredths of a percent).
RateNames == {"acceptance_rate", "enrollment_rate", "communication_rate"}

C4_RatesInRange ==
    /\ \A f \in Facilities : \A rate \in RateNames :
           Phc(f)[rate] >= 0 /\ Phc(f)[rate] <= 100 * 10
    /\ OverviewDone =>
           \A rate \in RateNames :
               dashboard_data.overview[rate] >= 0 /\ dashboard_data.overview[rate] <= 100 * 100

\* C5: a rate whose denominator is 0 is exactly 0, and the run raises no
\* division error, for every facility and for the overview.
C5_ZeroDenominator ==
    /\ pc # "raised"
    /\ \A f \in Facilities :
           /\ Phc(f).communicated = 0 => Phc(f).acceptance_rate = 0
           /\ Phc(f).accepted = 0 => Phc(f).enrollment_rate = 0
           /\ Phc(f).total_population = 0 => Phc(f).communication_rate = 0
    /\ OverviewDone =>
           LET o == dashboard_data.overview
           IN  /\ o.total_communicated = 0 => o.acceptance_rate = 0
               /\ o.total_accepted = 0 => o.enrollment_rate = 0
               /\ o.total_population = 0 => o.communication_rate = 0

C5_Witness ==
    /\ pc = "done"
    /\ \E f \in Facilities :
           /\ Phc(f).total_population > 0
           /\ Phc(f).communicated = 0
           /\ Phc(f).acceptance_rate = 0
    /\ dashboard_file.overview.total_accepted = 0
    /\ dashboard_file.overview.enrollment_rate = 0

\* C6: identity-keys are not deduplicated across groups: once the overview is
\* computed, the population of every facility counts the keys of its own
\* group only, so a key in two groups is counted in both, and every overview
\* count is the plain sum of the facilities' counts over all loaded sectors.
RECURSIVE SumOver(_, _)
SumOver(S, field) ==
    IF S = {} THEN 0
    ELSE LET f == CHOOSE f \in S : TRUE
         IN  Phc(f)[field] + SumOver(S \ {f}, field)

OwnGroupCount(f) ==
    Cardinality({ IdOf(f, i) : i \in { j \in GroupIdx(f) : IdOf(f, j) # NaN } })
    + Cardinality({ i \in GroupIdx(f) : IdOf(f, i) = NaN })

C6_NoCrossGroupDedup ==
    OverviewDone =>
        LET o  == dashboard_data.overview
            fs == Facilities
        IN  /\ \A f \in fs : Phc(f).total_population = OwnGroupCount(f)
            /\ o.total_population   = SumOver(fs, "total_population")
            /\ o.total_communicated = SumOver(fs, "communicated")
            /\ o.total_accepted     = SumOver(fs, "accepted")
            /\ o.total_refused      = SumOver(fs, "refused")
            /\ o.total_wrong_number = SumOver(fs, "wrong_number")
            /\ o.total_no_response  = SumOver(fs, "no_response")
            /\ o.total_enrolled     = SumOver(fs, "enrolled")
            /\ o.total_arrived      = SumOver(fs, "arrived")
            /\ o.total_in_person    = SumOver(fs, "in_person_visits")
            /\ o.total_virtual      = SumOver(fs, "virtual_visits")

C6_Witness ==
    /\ pc = "done"
    /\ \E f \in Facilities, g \in Facilities :
           /\ f # g
           /\ \E i \in GroupIdx(f), j \in GroupIdx(g) :
                  Keyed(IdOf(f, i)) /\ IdOf(f, i) = IdOf(g, j)
           /\ Phc(f).total_population = 1
           /\ Phc(g).total_population = 1
    /\ dashboard_file.overview.total_population = 2

-----------------------------------------------------------------------------
(* Properties of the normalizer (checked under SpecNorm)                   *)

IsStr(v) == v # NaNName /\ \A i \in 1..Len(v) : v[i] \in Chars

IsBlankStr(v) == v # NaNName /\ \A i \in 1..Len(v) : v[i] \in Whitespace

Contains(s, sub) == \E i \in 1..Len(s) : OccursAt(s, sub, i)

EndsWith(s, p) == Len(p) <= Len(s) /\ SubSeq(s, Len(s) - Len(p) + 1, Len(s)) = p

\* The list entries a name starts with, and the name cut by the first of them.
MatchingPrefixes(name) ==
    { k \in DOMAIN prefixes_to_remove : StartsWith(name, prefixes_to_remove[k]) }

FirstPrefixCut(name) ==
    IF MatchingPrefixes(name) = {} THEN name
    ELSE LET k == CHOOSE k \in MatchingPrefixes(name) :
                      \A j \in MatchingPrefixes(name) : k <= j
         IN  SubSeq(name, Len(prefixes_to_remove[k]) + 1, Len(name))

\* C7: the normalizer is idempotent: normalizing a name it produced changes
\* nothing, whatever the raw name was (leading whitespace, a prefix twice, a
\* prefix exposed by the removal of another).
C7_Idempotent == npc = "recleaned" => recleaned = cleaned

\* C8: the normalizer is total: an absent name gives the empty string, an
\* empty or whitespace-only name gives the empty string, and every other
\* name gives a string.
C8_Total ==
    npc # "raw" =>
        /\ IsStr(cleaned)
        /\ (source_name = NaNName => cleaned = <<>>)
        /\ (IsBlankStr(source_name) => cleaned = <<>>)

C8_Witness == npc = "cleaned" /\ source_name = NaNName /\ cleaned = <<>>

C10_Body ==
    SubSeq(source_name, Len(PrefixPHC) + 1, Len(source_name) - Len(Extension))

C10_BodyPlain ==
    /\ \A k \in DOMAIN prefixes_to_remove : ~Contains(C10_Body, prefixes_to_remove[k])
    /\ ~Contains(C10_Body, Extension)
    /\ PyStrip(C10_Body) = C10_Body

C10_PrefixAndExtension ==
    ( /\ npc # "raw"
      /\ source_name # NaNName
      /\ Len(source_name) >= Len(PrefixPHC) + Len(Extension)
      /\ StartsWith(source_name, PrefixPHC)
      /\ EndsWith(source_name, Extension)
      /\ C10_BodyPlain )
    => cleaned = C10_Body

C10_Witness ==
    /\ npc = "cleaned"
    /\ source_name = PrefixPHC \o <<"A", "l", "-", "N", "o", "o", "r">> \o Extension
    /\ cleaned = <<"A", "l", "-", "N", "o", "o", "r">>

\* C11: the normalizer collapses every run of internal whitespace to a single
\* space: a normalized name never holds two whitespace characters in a row
\* (so names that differ only in the amount of whitespace between words get
\* the same key).
HasWhitespaceRun(s) ==
    \E i \in 1..Len(s) - 1 : s[i] \in Whitespace /\ s[i + 1] \in Whitespace

C11_CollapsesWhitespace == npc # "raw" => ~HasWhitespaceRun(cleaned)

-----------------------------------------------------------------------------
(* Properties of a whole run (checked under Spec and SpecOrder)             *)

\* The tables that hold the rows of df in another order.
Reorderings(df) ==
    { [ i \in 1..Len(df) |-> df[p[i]] ] : p \in Permutations(1..Len(df)) }

\* The workbooks that hold, sheet by sheet, the rows of book in another order:
\* the sheets from the k-th sector on are reordered, the others kept.
RECURSIVE ReorderedFrom(_, _)
ReorderedFrom(book, k) ==
    IF k > Len(sectors) THEN { book }
    ELSE IF sectors[k] \notin DOMAIN book THEN ReorderedFrom(book, k + 1)
    ELSE { [ b EXCEPT ![sectors[k]] = r ] :
             b \in ReorderedFrom(book, k + 1), r \in Reorderings(book[sectors[k]]) }

ReorderedBooks(book) == ReorderedFrom(book, 1)

\* The sectors map and the overview a run computes from a workbook.
SectorsOf(book) ==
    [ n \in { SectorName(s) : s \in DOMAIN book } |->
        process_sector_data(book[CHOOSE s \in DOMAIN book : SectorName(s) = n]).data ]

\* C12: counting is order-independent: whatever other order the rows of the
\* sector tables are in, the run stores the same sector reports (counts, rates and
\* the order of the facilities) and the same overview.
C12_OrderIndependent ==
    pc = "done" =>
        \A b \in ReorderedBooks(sheets) \ { sheets } :
            LET reordered == SectorsOf(b)
            IN  /\ reordered = dashboard_file.sectors
                /\ calculate_overview_metrics(reordered).data = dashboard_file.overview

C12_Witness ==
    /\ pc = "done"
    /\ \E s \in DOMAIN sheets :
           /\ Len(sheets[s]) = 2
           /\ PHC_Clean(sheets[s][1]) # PHC_Clean(sheets[s][2])
           /\ StrLess(PHC_Clean(sheets[s][2]), PHC_Clean(sheets[s][1]))
           /\ Len(dashboard_file.sectors[SectorName(s)]) = 2
           /\ dashboard_file.sectors[SectorName(s)][1].total_population
                  = dashboard_file.sectors[SectorName(s)][2].total_population

C14_SortedStable ==
    \A s \in SheetNames :
        Loaded(s) =>
            \A i \in 1..Len(ReportOf(s)), j \in 1..Len(ReportOf(s)) :
                i < j =>
                    /\ ReportOf(s)[i].total_population >= ReportOf(s)[j].total_population
                    /\ ReportOf(s)[i].total_population = ReportOf(s)[j].total_population
                           => StrLess(ReportOf(s)[i].phc_name, ReportOf(s)[j].phc_name)

C14_Witness ==
    /\ pc = "done"
    /\ Len(dashboard_file.sectors["western"]) = 3
    /\ dashboard_file.sectors["western"][1].phc_name = <<"B">>
    /\ dashboard_file.sectors["western"][1].total_population = 2
    /\ dashboard_file.sectors["western"][2].phc_name = <<"A">>
    /\ dashboard_file.sectors["western"][2].total_population = 1
    /\ dashboard_file.sectors["western"][3].phc_name = <<"C">>
    /\ dashboard_file.sectors["western"][3].total_population = 1

\* C26: for every facility of the stored reports, accepted <= communicated
\* <= total_population, and refused, wrong_number and no_response are each
\* <= communicated: the unique count of a filtered subset never exceeds the
\* unique count of a superset of it.
C26_SubsetCounts ==
    OverviewDone =>
        \A f \in Facilities :
            /\ Phc(f).accepted <= Phc(f).communicated
            /\ Phc(f).communicated <= Phc(f).total_population
            /\ Phc(f).refused <= Phc(f).communicated
            /\ Phc(f).wrong_number <= Phc(f).communicated
            /\ Phc(f).no_response <= Phc(f).communicated

\* One person called twice, who accepted once and refused once.
C26_Witness ==
    /\ pc = "done"
    /\ \E f \in Facilities :
           /\ Cardinality(GroupIdx(f)) = 2
           /\ Phc(f).total_population = 1
           /\ Phc(f).communicated = 1
           /\ Phc(f).accepted = 1
           /\ Phc(f).refused = 1

-----------------------------------------------------------------------------
(* Properties of the loading (checked under SpecLoad)                      *)

Missing == SheetNames \ DOMAIN sheets

Malformed == { s \in DOMAIN sheets : sheets[s] = NoSourceNameColumn }

Printed(message) == \E i \in 1..Len(stdout) : stdout[i] = message

\* C15: a sector whose sheet is missing is skipped and reported: the run
\* still processes every other sector, computes the overview from the loaded
\* sectors only and persists the snapshot, in which the skipped sector has
\* no entry; a missing sheet alone never ends the run early.
C15_MissingSheetSkipped ==
    /\ pc = "raised" => Malformed # {}
    /\ pc = "done" =>
           /\ \A s \in Missing :
                  /\ SectorName(s) \notin DOMAIN dashboard_file.sectors
                  /\ Printed([kind |-> "error_reading", sector |-> s])
           /\ dashboard_file.sectors = SectorsOf(sheets)
           /\ dashboard_file.overview = calculate_overview_metrics(SectorsOf(sheets)).data
           /\ dashboard_file = dashboard_data

C15_Witness ==
    /\ pc = "done"
    /\ Missing = {"eastern_sector"}
    /\ DOMAIN dashboard_file.sectors = {"western", "northern", "southern"}
    /\ Len(sheets["western_sector"]) = 1
    /\ Len(sheets["southern_sector"]) = 1
    /\ dashboard_file.overview.total_population = 2
    /\ dashboard_file.overview.total_phc_centers = 2

\* C16: a sector whose sheet is present but malformed (no facility-name
\* column) is skipped like a missing one: the run does not end early, and
\* the snapshot it persists has no entry for that sector.
C16_MalformedSheetSkipped ==
    /\ pc # "raised"
    /\ pc = "done" =>
           \A s \in Malformed : SectorName(s) \notin DOMAIN dashboard_file.sectors

\* C17: the records whose normalized facility name is empty are in no
\* facility's metrics and in no overview total, and for every sector that has
\* such records the run prints their number as a skip tally.
Excluded(s) == { i \in 1..Len(sheets[s]) : PHC_Clean(sheets[s][i]) = <<>> }

SkipTallyPrinted(s) ==
    \E i \in 1..Len(stdout) :
        /\ stdout[i].kind = "skipped"
        /\ stdout[i].sector = s
        /\ stdout[i].rows = Cardinality(Excluded(s))

C17_EmptyNameTallied ==
    pc = "done" =>
        /\ \A f \in Facilities :
               /\ Phc(f).phc_name # <<>>
               /\ Phc(f).total_population = OwnGroupCount(f)
        /\ dashboard_file.overview.total_population = SumOver(Facilities, "total_population")
        /\ \A s \in DOMAIN sheets : Excluded(s) # {} => SkipTallyPrinted(s)

-----------------------------------------------------------------------------
(* Properties of the server (checked under SpecServer)                     *)

\* The threads that are inside process_raw_data.
InRun == { t \in DOMAIN threads : threads[t].at \in {"run", "dumping"} }

\* C18: at most one aggregation run executes at any time, whatever the
\* interleaving of POST /api/refresh, the admin refresh, the force cache
\* clear and the scheduler threads.
C18_AtMostOneRun == Cardinality(InRun) <= 1

\* C19: dashboard_data.json is replaced atomically: a GET /api/data that is
\* answered while a processing run is in progress returns a complete
\* snapshot (the previous one or the new one), never an empty or partly
\* written file.
C19_AtomicReplace ==
    [][ ( /\ response' # response
          /\ response'.handler = "serve_dashboard_data"
          /\ InRun # {} )
        => /\ response'.code = 200
           /\ Readable(response'.body) ]_vars

\* C20: a refresh request whose download or processing fails is answered
\* with success = false and leaves dashboard_data.json as the request found
\* it (stated for the requests handled while no scheduler thread has been
\* started, so that no other thread writes the file).
NoScheduler == \A t \in SchedulerIds : threads[t] = NotStarted

C20_FailedRefreshKeepsSnapshot ==
    [][ ( /\ response' # response
          /\ response'.handler \in {"refresh_data", "admin_refresh", "force_cache_clear"}
          /\ response'.failed
          /\ NoScheduler )
        => /\ response'.success = FALSE
           /\ files'[DataFile] = response'.before ]_vars

\* C21: POST /api/refresh is gated like the other triggers: a request that
\* arrives while a run is in progress, or within cooldown_seconds of the last
\* refresh, is rejected: its handler does not go on to call
\* process_raw_data.
C21_RefreshDataGated ==
    [][ ( /\ HttpIdle
          /\ threads'[HttpThread].task = "refresh_data"
          /\ \/ InRun # {}
             \/ now - last_refresh_time < cooldown_seconds )
        => threads'[HttpThread].at # "call_run" ]_vars

OtherExcelUrl == config.excel_url \notin {"", config.download_url}

C24_SnapshotShape ==
    files[DataFile] # Absent =>
        /\ DOMAIN files[DataFile] = {"kind", "last_updated", "sectors", "overview"}
        /\ files[DataFile].sectors = JsonObject

\* C25 as stated: a POST /admin/refresh handled less than cooldown_seconds
\* after the recorded last_refresh_time is answered 429 and changes nothing,
\* and last_refresh_time is changed only by the end of a refresh that
\* downloaded and processed successfully.
Cooled == now - last_refresh_time < cooldown_seconds

AdminRefreshArrives ==
    /\ HttpIdle
    /\ \/ threads'[HttpThread].task = "admin_refresh"
       \/ response' # response /\ response'.handler = "admin_refresh"

RefreshEnds(t) ==
    /\ threads[t].at = "after_run"
    /\ threads[t].download_success
    /\ threads[t].task \in {"admin_refresh", "scheduler"}
    /\ threads'[t].at # "after_run"

-----------------------------------------------------------------------------
(* Properties of the scheduler threads (checked under SpecSettings)        *)

\* The positions of a scheduler thread inside a refresh.
InRefresh == {"download", "call_run", "run", "dumping", "after_run"}

Live == { t \in Schedulers : threads[t].task = "scheduler" /\ ~threads[t].stop }

\* C28: at every moment at most one scheduler thread has a stop event that
\* is not set, and it is the thread of auto_refresh_settings["stop_event"]:
\* after a settings update with enabled there is exactly that one, the
\* thread the update created, and after an update without enabled there is
\* none.
C28_OneLiveScheduler ==
    /\ Cardinality(Live) <= 1
    /\ Live \subseteq {stop_event}
    /\ response.handler = "set_auto_refresh_settings" =>
           IF response.body.enabled THEN Live = {stop_event} ELSE Live = {}

\* The thread of an earlier update is still inside its refresh, stopped,
\* beside the thread of the latest update.
C28_Witness ==
    \E t \in Schedulers, u \in Schedulers :
        /\ t < u
        /\ threads[t].stop
        /\ threads[t].at = "run"
        /\ Live = {u}
        /\ stop_event = u
        /\ u = MaxSettingsSchedulers

-----------------------------------------------------------------------------
(* Properties of the startup (checked under SpecStartup)                   *)

\* C27: when auto-refresh is enabled at startup, start_dashboard_server does
\* not return before it serves, and when it serves exactly one scheduler
\* thread has been started.
C27_EnabledStartupServes ==
    load_auto_refresh_settings(files) =>
        /\ ~StartupAt("returned")
        /\ HttpIdle =>
               Cardinality({ t \in Schedulers : threads[t].task = "scheduler" }) = 1

-----------------------------------------------------------------------------
(* Properties of the admin sessions (checked under SpecAuth)               *)

\* The step is a call of is_admin_authenticated that accepts the token.
Accepts == auth' # auth /\ auth'.result

\* C29: a token is accepted only if a login with the configured password
\* made it (it is one of the uuids made so far and has a session) and the
\* time is not later than its expiry, the time of that login plus
\* session_timeout_minutes; a login with another password, or none, makes no
\* session and no token; a token that is checked later than its expiry is
\* rejected and its session is removed; and a token that was once rejected
\* as expired has no session in any later state and is not accepted again.
C29_Sessions ==
    [][ /\ Accepts =>
               /\ auth'.token \in 1..uuids
               /\ auth'.token \in DOMAIN admin_sessions
               /\ now <= admin_sessions[auth'.token].expires
               /\ admin_sessions[auth'.token].expires
                      = admin_sessions[auth'.token].created + session_timeout_minutes * 60
               /\ admin_sessions[auth'.token].created <= now
               /\ auth'.token \notin expired_seen
        /\ (response' # response /\ response'.handler = "admin_login") =>
               IF response'.code = 200
               THEN /\ DOMAIN admin_sessions' = DOMAIN admin_sessions \cup {response'.body.token}
                    /\ response'.body.token \notin 1..uuids
               ELSE UNCHANGED <<admin_sessions, uuids>>
        /\ \A t \in DOMAIN admin_sessions :
               (now > admin_sessions[t].expires /\ auth' # auth /\ auth'.token = t) =>
                   /\ ~auth'.result
                   /\ t \notin DOMAIN admin_sessions'
                   /\ t \in expired_seen'
        /\ expired_seen \subseteq expired_seen'
        /\ expired_seen' \cap DOMAIN admin_sessions' = {} ]_vars

\* The first token was rejected as expired, and the second, from a later
\* login, is accepted at the very time of its expiry.
C29_Witness ==
    /\ expired_seen = {1}
    /\ DOMAIN admin_sessions = {2}
    /\ auth = [token |-> 2, result |-> TRUE]
    /\ now = admin_sessions[2].expires
    /\ response.code = 401

-----------------------------------------------------------------------------
(* Properties of the refresh interval (checked under SpecInterval)         *)

\* The days of the week numbered 0 = Sunday ... 6 = Saturday.
SundayDays == <<"Sunday", "Monday", "Tuesday", "Wednesday", "Thursday", "Friday", "Saturday">>

DayNumber(day) == (CHOOSE k \in 1..7 : SundayDays[k] = day) - 1

\* Seconds since midnight of an "HH:MM" text.
HourSeconds(text) == text.h * 3600 + text.m * 60

\* The schedule can be evaluated for day d: its keys are there and, when d
\* is a work day that is not a weekend day, its work hours are times of day.
Evaluable(schedule, d) ==
    /\ {"work_days", "weekend_days"} \subseteq DOMAIN schedule
    /\ \/ d \in schedule.weekend_days.days
       \/ d \notin schedule.work_days.days
       \/ \A text \in { schedule.work_days.work_hours.start,
                         schedule.work_days.work_hours.end } :
             text.h < 24 /\ text.m < 60

Called == interval # 0

\* C30: get_next_refresh_interval returns simple_interval_minutes in simple
\* mode; in advanced mode, with the day d (0 = Sunday ... 6 = Saturday) and
\* the time t in the configured timezone, it returns the weekend interval
\* when d is a weekend day, whether or not d is a work day too; otherwise,
\* on a work day, the work-hours interval when start <= t <= end and the
\* after-hours interval when t is outside; and simple_interval_minutes when
\* d is in neither list or the schedule cannot be evaluated.
C30_Interval ==
    Called =>
        LET schedule == settings.advanced_schedule
            d == DayNumber(settings.now_tz.day)
            t == settings.now_tz.time
        IN  /\ settings.mode = "simple" => interval = settings.simple_interval_minutes
            /\ (settings.mode = "advanced" /\ settings.timezone_known) =>
                 IF ~Evaluable(schedule, d)
                 THEN interval = settings.simple_interval_minutes
                 ELSE IF d \in schedule.weekend_days.days
                 THEN interval = schedule.weekend_days.interval_minutes
                 ELSE IF d \in schedule.work_days.days
                 THEN LET hours == schedule.work_days.work_hours
                      IN  IF /\ HourSeconds(hours.start) <= t
                             /\ t <= HourSeconds(hours.end)
                          THEN interval = hours.interval_minutes
                          ELSE interval = schedule.work_days.after_hours.interval_minutes
                 ELSE interval = settings.simple_interval_minutes

\* Sunday, a work day and no weekend day, at 17:00:00 with work hours from
\* 08:00 to 17:00: the work-hours interval.
C30_Witness ==
    /\ Called
    /\ settings.mode = "advanced"
    /\ settings.timezone_known
    /\ settings.now_tz = [day |-> "Sunday", time |-> 17 * 3600]
    /\ "weekend_days" \in DOMAIN settings.advanced_schedule
    /\ settings.advanced_schedule.weekend_days.days = {5, 6}
    /\ settings.advanced_schedule.work_days.days = {0, 1, 2, 3, 4}
    /\ settings.advanced_schedule.work_days.work_hours.end = HourText(17, 0)
    /\ settings.advanced_schedule.work_days.work_hours.start = HourText(8, 0)
    /\ interval = 10

====
